---------------------------- MODULE Spec2Model ----------------------------
(***************************************************************************)
(* QuestAI: the request orchestration layer.                               *)
(*                                                                         *)
(*   RequestQueue, retryWithBackoff, extractQuestionsFromPage, performOCR  *)
(*       (the model-call service module)                                   *)
(*   handleProcess (App.tsx), cropDiagram / convertPdfToImages             *)
(*       (pdfService.ts)                                                   *)
(*                                                                         *)
(* JavaScript runs one macrotask at a time and drains every microtask it   *)
(* caused before the next one, so one action of this model is one          *)
(* macrotask (a user event, a settled network call, a timer, an image      *)
(* event) together with every promise continuation it triggers.            *)
(***************************************************************************)
EXTENDS Integers, Sequences, FiniteSets, TLC

VARIABLES
    queue,            \* RequestQueue.queue: ids of the tasks waiting, head first
    activeRequests,   \* RequestQueue.activeRequests
    tasks,            \* every task given to add(), by task id
    ops,              \* every retryWithBackoff invocation chain, by id
    fromTask,         \* the waiting tasks that a running task submitted
    apiKey,           \* getApiKey() is non-empty (VITE_API_KEY or localStorage)
    calls,            \* every call of extractQuestionsFromPage / performOCR, by id
    step,             \* App state: step
    progress,         \* App state: progress, as the fraction num / den
    message,          \* App state: message
    questions,        \* App state: questions
    pages,            \* handleProcess: pages, with the state of each page callback
    allExtractedQuestions,  \* handleProcess: allExtractedQuestions
    arrivals,         \* history: the pages in the order their callbacks finished
    crop,             \* one call of cropDiagram: its promise, image and timer
    exported,         \* the last export: its format and the items it emitted
    clock             \* Date.now()

vars == <<queue, activeRequests, tasks, ops, fromTask, apiKey, calls,
          step, progress, message, questions, pages, allExtractedQuestions,
          arrivals, crop, exported, clock>>

-----------------------------------------------------------------------------
(* Program constants *)

MAX_CONCURRENT_REQUESTS == 10
INITIAL_RETRY_DELAY == 2000
MAX_RETRIES == 5

(* Bounds of the model *)

MaxTasks == 12       \* add() calls in one behaviour of SpecQueue
MaxSettled == 3      \* generic tasks that settle in one behaviour of SpecQueue
MaxCalls == 1        \* direct calls of retryWithBackoff in one behaviour of SpecRetry
MaxServiceCalls == 2 \* calls of the exported functions in one behaviour of SpecService
MaxPages == 2        \* pages convertPdfToImages returns
MaxRateLimited == 6  \* rate-limit errors the model API answers in one behaviour of SpecService
MaxThrottled == 1    \* rate-limit errors the model API answers in one behaviour of SpecRun
MaxCrops == 3        \* crops that load an image in one behaviour
MaxQuestionsPerPage == 2   \* questions in one extraction response
MaxBurstThrottled == 10    \* rate-limit errors the model API answers in one behaviour of SpecBurst
MaxBurstFires == 1         \* backoff timers that fire in one behaviour of SpecBurst
MaxBurstReturns == 1       \* operations that return in one behaviour of SpecBurst
MaxSharedCalls == 11       \* calls of the exported functions in one behaviour of SpecShared
MaxSharedReturns == 1      \* model calls that return in one behaviour of SpecShared
MaxDrainTasks == 12        \* add() calls in one behaviour of SpecDrain
MaxClock == 2              \* milliseconds that pass in one behaviour of SpecOrder
MaxSortLen == 4            \* questions in a list given to sort under SpecSort

-----------------------------------------------------------------------------
(* The state as one record, so that the synchronous call chains            *)
(* add -> processQueue -> task() -> add ... can be composed as operators.  *)

World ==
    [queue |-> queue, activeRequests |-> activeRequests, tasks |-> tasks,
     ops |-> ops, fromTask |-> fromTask,
     apiKey |-> apiKey, calls |-> calls, step |-> step, progress |-> progress,
     message |-> message, questions |-> questions, pages |-> pages,
     allExtractedQuestions |-> allExtractedQuestions, arrivals |-> arrivals,
     crop |-> crop, exported |-> exported, clock |-> clock]

Becomes(W) ==
    /\ queue' = W.queue
    /\ activeRequests' = W.activeRequests
    /\ tasks' = W.tasks
    /\ ops' = W.ops
    /\ fromTask' = W.fromTask
    /\ apiKey' = W.apiKey
    /\ calls' = W.calls
    /\ step' = W.step
    /\ progress' = W.progress
    /\ message' = W.message
    /\ questions' = W.questions
    /\ pages' = W.pages
    /\ allExtractedQuestions' = W.allExtractedQuestions
    /\ arrivals' = W.arrivals
    /\ crop' = W.crop
    /\ exported' = W.exported
    /\ clock' = W.clock

(* A task of the queue.  kind "generic" is an arbitrary caller-supplied    *)
(* task; spawn is the number of add() calls its body still has to make     *)
(* synchronously when it is started.  handle is the promise add() returned;*)
(* behind records that add() left the task waiting behind another one.     *)
GenericTask(spawn) ==
    [kind |-> "generic", spawn |-> spawn, st |-> "queued", behind |-> FALSE,
     handle |-> "pending", value |-> <<>>, op |-> 0, call |-> 0]

(* The task extractQuestionsFromPage / performOCR gives to add(): call is  *)
(* the call of the exported function it belongs to, op the retryWithBackoff*)
(* call its body makes when it is started.                                 *)
ServiceTask(kind, call) ==
    [kind |-> kind, spawn |-> 0, st |-> "queued", behind |-> FALSE,
     handle |-> "pending", value |-> <<>>, op |-> 0, call |-> call]

-----------------------------------------------------------------------------
(* Errors thrown by a model call.  status and code are 0 when the error    *)
(* object has no such property; message is a sequence of characters, or    *)
(* undefined.                                                              *)

NoMessage == [defined |-> FALSE, text |-> <<>>]
Message(text) == [defined |-> TRUE, text |-> text]
Error(status, code, msg) ==
    [status |-> status, code |-> code, message |-> msg]

\* String.prototype.includes
Includes(text, pattern) ==
    \E i \in 1..(Len(text) - Len(pattern) + 1) :
        SubSeq(text, i, i + Len(pattern) - 1) = pattern

Str429 == <<"4", "2", "9">>
StrQuota == <<"q", "u", "o", "t", "a">>

\* the errors a model call is made to fail with
Errors ==
    { Error(429, 0, NoMessage),
      Error(0, 429, Message(<<"E">>)),
      Error(0, 0, Message(<<"[">> \o Str429 \o <<"]">>)),
      Error(0, 0, Message(<<"n", "o", " ">> \o StrQuota)),
      Error(500, 0, Message(<<"Q", "u", "o", "t", "a">>)),
      Error(500, 500, Message(<<"4", "2", " ", "9">>)),
      Error(0, 0, NoMessage) }

IsRateLimit_Mut(error) ==
    \/ error.status = 429
    \/ error.message.defined /\ Includes(error.message.text, Str429)
    \/ error.message.defined /\ Includes(error.message.text, StrQuota)

\* error.status === 429 || error.code === 429 ||
\* error.message?.includes('429') || error.message?.includes('quota')
IsRateLimit(error) ==
    \/ error.status = 429
    \/ error.code = 429
    \/ error.message.defined /\ Includes(error.message.text, Str429)
    \/ error.message.defined /\ Includes(error.message.text, StrQuota)

RetriesRemain_Mut(retries) == retries >= 0

\* retries > 0
RetriesRemain(retries) == retries > 0

NextDelay_Mut(delay) == delay + INITIAL_RETRY_DELAY

\* delay * 2
NextDelay(delay) == delay * 2

-----------------------------------------------------------------------------
(* retryWithBackoff.  One record of ops is one top-level call with its     *)
(* recursive calls: retries and delay are the arguments of the innermost   *)
(* call, r0 and d0 those of the top-level call; attempts counts the calls  *)
(* of operation(), waits lists the delays of the timers set, lastError is  *)
(* the error of the latest failed attempt, task is the queue task the call *)
(* runs in (0: none).                                                      *)

NoError == Error(0, 0, NoMessage)

\* retryWithBackoff(operation, retries, delay) up to `await operation()`
NewOp(kind, retries, delay, task) ==
    [kind |-> kind, r0 |-> retries, d0 |-> delay,
     retries |-> retries, delay |-> delay,
     phase |-> "call", attempts |-> 1, waits |-> <<>>,
     lastError |-> NoError, value |-> <<>>, task |-> task,
     body |-> "none"]    \* history: the kind of the last response body

\* operation() returned v: `return await operation()`
opReturns(W, o, v) ==
    [W EXCEPT !.ops[o].phase = "returned", !.ops[o].value = v]

\* operation() threw error: the catch block
opFails(W, o, error) ==
    LET op == W.ops[o] IN
    IF RetriesRemain(op.retries) /\ IsRateLimit(error)
    THEN [W EXCEPT !.ops[o].phase = "wait",
                   !.ops[o].lastError = error,
                   !.ops[o].waits = Append(@, op.delay)]
    ELSE [W EXCEPT !.ops[o].phase = "thrown",
                   !.ops[o].lastError = error,
                   !.ops[o].value = error]

\* the timer fired: return retryWithBackoff(operation, retries - 1, delay * 2)
opRetries(W, o) ==
    [W EXCEPT !.ops[o].phase = "call",
              !.ops[o].retries = @ - 1,
              !.ops[o].delay = NextDelay(@),
              !.ops[o].attempts = @ + 1]

\* the next id of a table whose entries are numbered in creation order
NextId(table) == Cardinality(DOMAIN table) + 1

OpIds(W) == DOMAIN W.ops
Calling(W) == {o \in OpIds(W) : W.ops[o].phase = "call"}
Waiting(W) == {o \in OpIds(W) : W.ops[o].phase = "wait"}

-----------------------------------------------------------------------------
(* RequestQueue *)

AtCapacity_Mut(W) == W.activeRequests > MAX_CONCURRENT_REQUESTS

\* processQueue's first guard: this.activeRequests >= MAX_CONCURRENT_REQUESTS
AtCapacity(W) == W.activeRequests >= MAX_CONCURRENT_REQUESTS

Shift_Mut(q) == [task |-> q[Len(q)], rest |-> SubSeq(q, 1, Len(q) - 1)]

\* this.queue.shift()
Shift(q) == [task |-> Head(q), rest |-> Tail(q)]

RECURSIVE processQueue(_), runTask(_, _), spawnChildren(_, _, _)

\* the body of a service task: return retryWithBackoff(async () => ...),
\* which runs up to the generateContent call of its first attempt
startService(W, t) ==
    [W EXCEPT !.ops = @ @@ (t :> NewOp(W.tasks[t].kind, MAX_RETRIES,
                                       INITIAL_RETRY_DELAY, t)),
              !.tasks[t].op = t]

\* the id of the task a call of add() submits: that of the service call it
\* belongs to, or the next number for a caller-supplied task
TaskId(W, rec) == IF rec.call # 0 THEN rec.call ELSE NextId(W.tasks)

\* add(task): push the wrapper, then processQueue()
add(W, rec) ==
    LET t == TaskId(W, rec)
        W1 == processQueue([W EXCEPT !.tasks = @ @@ (t :> rec),
                                     !.queue = Append(@, t)])
    IN [W1 EXCEPT !.tasks[t].behind =
           W1.tasks[t].st = "queued" /\ Len(W1.queue) >= 2]

\* add(task) called by the body of a running task
addFromTask(W, rec) ==
    add([W EXCEPT !.fromTask = @ \cup {TaskId(W, rec)}], rec)

\* processQueue up to its await: the guard, activeRequests++, shift, task()
processQueue(W) ==
    IF AtCapacity(W) \/ Len(W.queue) = 0
    THEN W
    ELSE LET sh == Shift(W.queue)
         IN runTask([W EXCEPT !.activeRequests = @ + 1, !.queue = sh.rest],
                    sh.task)

\* task(): the wrapper calls the caller's task, which runs synchronously up
\* to its first await
runTask(W, t) ==
    LET W1 == [W EXCEPT !.tasks[t].st = "running",
                        !.tasks[t].spawn = 0,
                        !.fromTask = @ \ {t}]
    IN IF W.tasks[t].kind = "generic"
       THEN spawnChildren(W1, t, W.tasks[t].spawn)
       ELSE startService(W1, t)

\* a generic task body that calls add() n times before its first await
spawnChildren(W, t, n) ==
    IF n = 0 THEN W
    ELSE spawnChildren(addFromTask(W, GenericTask(0)), t, n - 1)

SettleHandle_Mut(W, t, ok, v) ==
    [W EXCEPT !.tasks[t].handle = "resolved", !.tasks[t].value = v]

\* the wrapper: try { resolve(await task()) } catch (error) { reject(error) }
SettleHandle(W, t, ok, v) ==
    [W EXCEPT !.tasks[t].handle = IF ok THEN "resolved" ELSE "rejected",
              !.tasks[t].value = v]

releaseSlot_Mut(W, t) ==
    [W EXCEPT !.tasks[t].st = "done", !.activeRequests = @ - 1]

\* the slot is given back only by a task that returned
releaseSlot_Try(W, t) ==
    processQueue([W EXCEPT !.tasks[t].st = "done",
                           !.activeRequests =
                               IF W.tasks[t].handle = "rejected" THEN @ ELSE @ - 1])

\* processQueue after its await: finally { activeRequests--; processQueue() }
releaseSlot(W, t) ==
    processQueue([W EXCEPT !.tasks[t].st = "done", !.activeRequests = @ - 1])

\* a running task settles with outcome (ok, v)
taskSettles(W, t, ok, v) == releaseSlot(SettleHandle(W, t, ok, v), t)

-----------------------------------------------------------------------------
(* Questions *)

SlotSet == {"Q", "A", "B", "C", "D"}    \* the question's own diagram, options A-D
Undefined == "undefined"
DataUrl == "data:image/png"

NoBox == [present |-> FALSE, v |-> <<>>]
Box(v) == [present |-> TRUE, v |-> v]

\* one element of data.questions: diagram_bbox, options.A_diagram_bbox and
\* options.B_diagram_bbox as given, no bounding box on options C and D
RawQuestion(number, flag, qbox, abox, bbox) ==
    [question_number |-> number, has_diagram |-> flag,
     bbox |-> [s \in SlotSet |->
                  IF s = "Q" THEN qbox ELSE IF s = "A" THEN abox
                  ELSE IF s = "B" THEN bbox ELSE NoBox]]

DecimalDigit == <<"0", "1", "2", "3", "4", "5", "6", "7", "8", "9">>

RECURSIVE Digits(_)
\* the decimal digits of n, as a template literal writes a number
Digits(n) ==
    IF n < 10 THEN <<DecimalDigit[n + 1]>>
    ELSE Digits(n \div 10) \o <<DecimalDigit[(n % 10) + 1]>>

formatId_Mut(pageNumber, idx, now) ==
    <<"p">> \o Digits(pageNumber) \o <<"-">> \o Digits(now)

\* `p${pageNumber}-q${idx}-${Date.now()}`, as a sequence of characters
formatId(pageNumber, idx, now) ==
    <<"p">> \o Digits(pageNumber) \o <<"-", "q">> \o Digits(idx)
    \o <<"-">> \o Digits(now)

\* (data.questions || []).map((q, idx) => ({...q, id, page_number}))
withIds(raw, pageNumber, now) ==
    [i \in 1..Len(raw) |->
        [id |-> formatId(pageNumber, i - 1, now),
         page_number |-> pageNumber,
         question_number |-> raw[i].question_number,
         has_diagram |-> raw[i].has_diagram,
         bbox |-> raw[i].bbox,
         url |-> [s \in SlotSet |-> Undefined],
         alt |-> [s \in SlotSet |-> Undefined]]]

SyntaxError == Error(0, 0, Message(<<"Unexpected token">>))
ConfigError == Error(0, 0, Message(<<"API Key not found. Please configure it in settings.">>))

\* the async operation given to retryWithBackoff, after generateContent
\* returned response: what it returns, or the error it throws
operationResult(kind, response, pageNumber, now) ==
    IF kind = "ocr"
    THEN [ok |-> TRUE, value |-> response.text]           \* response.text || ""
    ELSE IF response.kind = "empty"
    THEN [ok |-> TRUE, value |-> <<>>]                     \* if (!text) return []
    ELSE IF response.kind = "malformed"
    THEN [ok |-> FALSE, value |-> SyntaxError]             \* JSON.parse throws
    ELSE [ok |-> TRUE, value |-> withIds(response.questions, pageNumber, now)]

-----------------------------------------------------------------------------
(* cropDiagram, up to `new Image()` *)

Min(a, b) == IF a < b THEN a ELSE b
Max(a, b) == IF a > b THEN a ELSE b

normalize_Mut(v) ==
    [ymin |-> v[1], xmin |-> v[2], ymax |-> v[3], xmax |-> v[4]]

\* const [ymin, xmin, ymax, xmax] = bbox; normXmin = Math.min(xmin, xmax) ...
normalize(v) ==
    [ymin |-> Min(v[1], v[3]), xmin |-> Min(v[2], v[4]),
     ymax |-> Max(v[1], v[3]), xmax |-> Max(v[2], v[4])]

\* TRUE when cropDiagram resolves '' before it loads the image
cropResolvesAtOnce(bbox) ==
    \/ ~bbox.present
    \/ Len(bbox.v) # 4
    \/ LET n == normalize(bbox.v)
       IN n.xmax - n.xmin < 1 \/ n.ymax - n.ymin < 1

-----------------------------------------------------------------------------
(* cropDiagram: the promise it returns, the image it loads and its timer.  *)
(* st is the state of the promise ("none" before the call), img the state  *)
(* of the Image ("none" when none was created), timer the state of the     *)
(* setTimeout timer.                                                       *)

\* setTimeout(..., 10000)
CROP_TIMEOUT == 10000

\* a rectangle, in units of 1/40000 pixel
Rect(x, y, w, h) == [x |-> x, y |-> y, w |-> w, h |-> h]

\* source is the size of the loaded image in pixels, rect the rectangle
\* given to drawImage (both 0 until an image was drawn)
NoCrop ==
    [st |-> "none", base64Image |-> "", bbox |-> NoBox, img |-> "none",
     timer |-> "none", delay |-> 0, result |-> Undefined,
     source |-> [w |-> 0, h |-> 0], rect |-> Rect(0, 0, 0, 0)]

resolve_Mut(W, v) == [W EXCEPT !.crop.st = "resolved", !.crop.result = v]

\* resolve(v) of `new Promise((resolve) => ...)`: settles the promise the
\* first time it is called, does nothing afterwards
resolve(W, v) ==
    IF W.crop.st = "resolved" THEN W
    ELSE [W EXCEPT !.crop.st = "resolved", !.crop.result = v]

\* cropDiagram(base64Image, bbox, ...): the executor of the promise
cropDiagram(W, base64Image, bbox) ==
    LET W1 == [W EXCEPT !.crop = [NoCrop EXCEPT !.st = "pending",
                                                !.base64Image = base64Image,
                                                !.bbox = bbox]]
    IN IF base64Image = "" \/ cropResolvesAtOnce(bbox)
       THEN resolve(W1, "")
       ELSE [W1 EXCEPT !.crop.img = "loading",
                       !.crop.timer = "armed",
                       !.crop.delay = CROP_TIMEOUT]

\* clearTimeout(timeout)
clearTimeout(W) ==
    [W EXCEPT !.crop.timer = IF @ = "armed" THEN "cleared" ELSE @]

\* finalW (or finalH) in units of 1/40000 pixel, from the normalized bounds
\* lo, hi of the box and the size of the image: raw = ((hi - lo) / 1000) *
\* source, padding = raw * 0.025, final0 = max(0, (lo / 1000) * source -
\* padding), finalW = min(source - final0, raw + padding * 2)
finalExtent(lo, hi, source) ==
    LET raw == (hi - lo) * source * 40
        padding == (hi - lo) * source
        final0 == Max(0, lo * source * 40 - padding)
    IN Min(source * 40000 - final0, raw + 2 * padding)

\* finalX (or finalY) in units of 1/40000 pixel:
\* max(0, (lo / 1000) * source - padding)
finalOrigin(lo, hi, source) ==
    Max(0, lo * source * 40 - (hi - lo) * source)

\* img.onload, for an image of sourceW x sourceH pixels; canvas is "drawn",
\* "noContext" (getContext returns null) or "throws"
onload(W, sourceW, sourceH, canvas) ==
    LET n == normalize(W.crop.bbox.v)
        finalW == finalExtent(n.xmin, n.xmax, sourceW)
        finalH == finalExtent(n.ymin, n.ymax, sourceH)
        W1 == [clearTimeout(W) EXCEPT !.crop.img = "loaded"]
    IN IF finalW < 40000 \/ finalH < 40000 THEN resolve(W1, "")
       ELSE IF canvas # "drawn" THEN resolve(W1, "")
       ELSE resolve([W1 EXCEPT
                !.crop.source = IF W1.crop.st = "resolved" THEN @
                                ELSE [w |-> sourceW, h |-> sourceH],
                !.crop.rect = IF W1.crop.st = "resolved" THEN @
                              ELSE Rect(finalOrigin(n.xmin, n.xmax, sourceW),
                                        finalOrigin(n.ymin, n.ymax, sourceH),
                                        finalW, finalH)], DataUrl)

\* img.onerror
onerror(W) == resolve([clearTimeout(W) EXCEPT !.crop.img = "errored"], "")

\* the timer callback: img.src = ''; resolve('')
onTimeout(W) == resolve([W EXCEPT !.crop.timer = "fired"], "")

-----------------------------------------------------------------------------
(* extractQuestionsFromPage and performOCR.  owner names the page callback *)
(* of handleProcess that awaits the call: page 0 is a caller outside it.   *)

Owner(page, q, slot) == [page |-> page, q |-> q, slot |-> slot]
NoOwner == Owner(0, 0, "Q")

SlotIndex(s) ==
    IF s = "Q" THEN 0 ELSE IF s = "A" THEN 1 ELSE IF s = "B" THEN 2
    ELSE IF s = "C" THEN 3 ELSE 4

\* the id of a call: a page callback's calls are named after the page,
\* question and slot they are made for, other callers' calls are numbered
CallId(W, owner) ==
    IF owner.page = 0 THEN NextId(W.calls)
    ELSE 100 * owner.page + 10 * owner.q + SlotIndex(owner.slot)

HasKey_Mut(W) == TRUE

\* const apiKey = getApiKey(); if (!apiKey) throw ...
HasKey(W) == W.apiKey

serviceCall(W, fn, pageNumber, owner) ==
    LET c == CallId(W, owner) IN
    IF ~HasKey(W)
    THEN [W EXCEPT !.calls = @ @@ (c :>
             [fn |-> fn, pageNumber |-> pageNumber, owner |-> owner,
              task |-> 0, st |-> "rejected", value |-> ConfigError])]
    ELSE add([W EXCEPT !.calls = @ @@ (c :>
                 [fn |-> fn, pageNumber |-> pageNumber, owner |-> owner,
                  task |-> c, st |-> "pending", value |-> <<>>])],
             ServiceTask(fn, c))

extractQuestionsFromPage(W, pageNumber, owner) ==
    serviceCall(W, "extract", pageNumber, owner)

performOCR_Mut(W, owner) ==
    LET c == CallId(W, owner)
    IN runTask([W EXCEPT
           !.calls = @ @@ (c :>
               [fn |-> "ocr", pageNumber |-> 0, owner |-> owner,
                task |-> c, st |-> "pending", value |-> <<>>]),
           !.tasks = @ @@ (c :> ServiceTask("ocr", c))], c)

performOCR(W, owner) == serviceCall(W, "ocr", 0, owner)

\* TRUE when the call made for owner threw before its first await
ThrewAtOnce(W, owner) == W.calls[CallId(W, owner)].st = "rejected"

-----------------------------------------------------------------------------
(* handleProcess: the page callbacks.                                      *)
(* pages[p].st: "extracting" (awaiting extractQuestionsFromPage),          *)
(*   "enriching" (awaiting Promise.all of the questions), "pushed" (the    *)
(*   try block finished), "caught" (the catch block ran).                  *)
(* pages[p].slots[i][s]: "none" (no crop launched), "cropping" (awaiting   *)
(*   cropDiagram), "captioning" (awaiting performOCR), "done" (the slot's  *)
(*   promise is fulfilled), "failed" (it is rejected).                     *)

Note(text, n) == [text |-> text, n |-> n]

\* if (q.has_diagram && q.diagram_bbox) ... ; if (bbox && bbox.length === 4) ...
LaunchesCrop(q, s) ==
    IF s = "Q" THEN q.has_diagram /\ q.bbox["Q"].present
    ELSE q.bbox[s].present /\ Len(q.bbox[s].v) = 4

compare_Mut(a, b) == a.page_number - b.page_number

\* a.page_number - b.page_number || a.question_number - b.question_number
compare(a, b) ==
    IF a.page_number - b.page_number # 0
    THEN a.page_number - b.page_number
    ELSE a.question_number - b.question_number

place_Mut(init, x) ==
    Cardinality({i \in 1..Len(init) : compare(init[i], x) < 0})

\* the place a stable sort gives x in the sorted list init: behind every
\* element that does not compare greater than x
place(init, x) ==
    Cardinality({i \in 1..Len(init) : compare(init[i], x) <= 0})

RECURSIVE sort(_)
\* Array.prototype.sort with compare: a stable sort
sort(list) ==
    IF Len(list) <= 1 THEN list
    ELSE LET init == sort(SubSeq(list, 1, Len(list) - 1))
             x == list[Len(list)]
             k == place(init, x)
         IN SubSeq(init, 1, k) \o <<x>> \o SubSeq(init, k + 1, Len(init))

PageIds(W) == 1..Len(W.pages)

completedMessage_Mut(list) == Note("Extracted questions", Len(list) + 1)

\* `Extracted ${allExtractedQuestions.length} questions.`
completedMessage(list) == Note("Extracted questions", Len(list))

completedProgress_Mut == [num |-> 90, den |-> 1]

\* setProgress(100)
completedProgress == [num |-> 100, den |-> 1]

\* the run waits until every page callback has pushed its questions
settleRun_Mut(W) ==
    IF W.step = "EXTRACTING_DATA"
       /\ \A p \in PageIds(W) : W.pages[p].st = "pushed"
    THEN [W EXCEPT !.questions = sort(W.allExtractedQuestions),
                   !.allExtractedQuestions = sort(W.allExtractedQuestions),
                   !.step = "COMPLETED",
                   !.message = completedMessage(W.allExtractedQuestions),
                   !.progress = completedProgress]
    ELSE W

\* await Promise.all(pagePromises) and what follows it
settleRun(W) ==
    IF W.step = "EXTRACTING_DATA"
       /\ \A p \in PageIds(W) : W.pages[p].st \in {"pushed", "caught"}
    THEN [W EXCEPT !.questions = sort(W.allExtractedQuestions),
                   !.allExtractedQuestions = sort(W.allExtractedQuestions),
                   !.step = "COMPLETED",
                   !.message = completedMessage(W.allExtractedQuestions),
                   !.progress = completedProgress]
    ELSE W

pageCaught_Mut(W, p) ==
    [W EXCEPT !.pages[p].st = "caught",
              !.step = "ERROR",
              !.message = Note("Error occurred during extraction.", 0)]

\* catch (error) { console.error(...) }
pageCaught(W, p) == settleRun([W EXCEPT !.pages[p].st = "caught"])

push_Mut(list, pageQuestions) == list

\* allExtractedQuestions.push(...pageQuestions)
push(list, pageQuestions) == list \o pageQuestions

\* allExtractedQuestions.push(...pageQuestions); setProgress(...)
pagePushed(W, p) ==
    settleRun([W EXCEPT
        !.pages[p].st = "pushed",
        !.allExtractedQuestions = push(@, W.pages[p].qs),
        !.progress = [num |-> Min(95 * W.progress.den, W.progress.num + 85),
                      den |-> W.progress.den]])

SlotStates(W, p) ==
    {W.pages[p].slots[i][s] : i \in 1..Len(W.pages[p].slots), s \in SlotSet}

\* the two nested Promise.all of a page callback, after a slot changed:
\* rejected as soon as one promise is, fulfilled when all are
settlePage(W, p) ==
    IF W.pages[p].st # "enriching" THEN W
    ELSE IF "failed" \in SlotStates(W, p) THEN pageCaught(W, p)
    ELSE IF SlotStates(W, p) \subseteq {"none", "done"} THEN pagePushed(W, p)
    ELSE W

\* extractQuestionsFromPage settled for page p
onExtracted(W, p, ok, v) ==
    IF ~ok THEN pageCaught(W, p)
    ELSE settlePage([W EXCEPT
            !.pages[p].st = "enriching",
            !.pages[p].qs = v,
            !.pages[p].slots =
                [i \in 1..Len(v) |->
                    [s \in SlotSet |->
                        IF ~LaunchesCrop(v[i], s) THEN "none"
                        ELSE IF cropResolvesAtOnce(v[i].bbox[s]) THEN "done"
                        ELSE "cropping"]]], p)

\* the url is stored and the caption requested whatever cropDiagram returned
onCropped_Mut(W, p, i, s, url) ==
    LET W1 == performOCR([W EXCEPT !.pages[p].qs[i].url[s] = url],
                         Owner(p, i, s))
    IN settlePage([W1 EXCEPT !.pages[p].slots[i][s] =
                      IF ThrewAtOnce(W1, Owner(p, i, s)) THEN "failed"
                      ELSE "captioning"], p)

\* cropDiagram resolved with url for slot s of question i of page p:
\* if (url) { q.diagram_url = url; q.diagram_alt_text = await performOCR(url) }
onCropped(W, p, i, s, url) ==
    IF url = ""
    THEN settlePage([W EXCEPT !.pages[p].slots[i][s] = "done"], p)
    ELSE LET W1 == performOCR([W EXCEPT !.pages[p].qs[i].url[s] = url],
                              Owner(p, i, s))
         IN settlePage([W1 EXCEPT !.pages[p].slots[i][s] =
                           IF ThrewAtOnce(W1, Owner(p, i, s)) THEN "failed"
                           ELSE "captioning"], p)

\* performOCR settled for slot s of question i of page p
onCaptioned(W, p, i, s, ok, v) ==
    IF ok
    THEN settlePage([W EXCEPT !.pages[p].qs[i].alt[s] = v,
                              !.pages[p].slots[i][s] = "done"], p)
    ELSE settlePage([W EXCEPT !.pages[p].slots[i][s] = "failed"], p)

-----------------------------------------------------------------------------
(* A model call settles *)

\* the continuation awaiting call c
resume(W, c) ==
    LET call == W.calls[c]
        ok == call.st = "resolved"
    IN IF call.owner.page = 0 THEN W
       ELSE IF call.fn = "extract"
       THEN onExtracted(W, call.owner.page, ok, call.value)
       ELSE onCaptioned(W, call.owner.page, call.owner.q, call.owner.slot,
                        ok, call.value)

\* retryWithBackoff returned or threw inside task t: the wrapper settles the
\* handle, processQueue frees the slot and starts the next task, then the
\* caller of extractQuestionsFromPage / performOCR resumes
opFinished(W, o) ==
    LET t == W.ops[o].task
        c == W.tasks[t].call
        ok == W.ops[o].phase = "returned"
        W1 == taskSettles(W, t, ok, W.ops[o].value)
        W2 == [W1 EXCEPT !.calls[c].st = IF W1.tasks[t].handle = "resolved"
                                         THEN "resolved" ELSE "rejected",
                         !.calls[c].value = W1.tasks[t].value]
    IN resume(W2, c)

\* the task of an operation that starts a backoff wait completes
callFails_Mut(W, o, error) ==
    LET W1 == opFails(W, o, error)
    IN IF W1.ops[o].phase = "thrown" THEN opFinished(W1, o)
       ELSE releaseSlot(W1, W1.ops[o].task)

\* generateContent threw error, or the operation threw after it returned
callFails(W, o, error) ==
    LET W1 == opFails(W, o, error)
    IN IF W1.ops[o].phase = "thrown" THEN opFinished(W1, o) ELSE W1

\* generateContent returned response
callReturns(W, o, response) ==
    LET res == operationResult(W.ops[o].kind, response,
                               W.calls[W.tasks[W.ops[o].task].call].pageNumber,
                               W.clock)
        W0 == [W EXCEPT !.ops[o].body = response.kind]
    IN IF res.ok THEN opFinished(opReturns(W0, o, res.value), o)
       ELSE callFails(W0, o, res.value)

-----------------------------------------------------------------------------
(* The exports.  An export is modelled by the sequence of items it emits:  *)
(* item kind "number" carries the question number in n, "text" stands for  *)
(* the question text, "option" for the text of option slot, "image" and    *)
(* "caption" carry a diagram's data URL and alt text in v, "marker" is the *)
(* line [Main Diagram Attached]; q is the index of the question in the     *)
(* list.  rendered is FALSE when renderBlockToImage resolves with no data, *)
(* loads is FALSE when a diagram image cannot be loaded or fetched.        *)

Item(kind, q, slot, n, v) ==
    [kind |-> kind, q |-> q, slot |-> slot, n |-> n, v |-> v]

\* const labels = ['A', 'B', 'C', 'D']
Labels == <<"A", "B", "C", "D">>

\* if (x): neither undefined nor the empty string
Truthy(x) == x # Undefined /\ x # ""

NoExport ==
    [format |-> "none", rendered |-> TRUE, loads |-> TRUE, done |-> FALSE,
     items |-> <<>>]

\* the block `Q${q.question_number}. ${q.question_text}`
questionBlock(q, i) ==
    <<Item("number", i, "Q", q.question_number, ""), Item("text", i, "Q", 0, "")>>

RECURSIVE Flatten(_)
\* the concatenation of a sequence of sequences
Flatten(seqs) ==
    IF seqs = <<>> THEN <<>> ELSE Head(seqs) \o Flatten(Tail(seqs))

\* handleExportPDF: one option of question i
pdfOption(q, i, label, rendered, loads) ==
    (IF rendered THEN <<Item("option", i, label, 0, "")>> ELSE <<>>)
    \o (IF ~Truthy(q.url[label]) THEN <<>>
        ELSE IF loads THEN <<Item("image", i, label, 0, q.url[label])>>
        ELSE <<Item("hang", i, label, 0, "")>>)  \* only img.onload is awaited

\* handleExportPDF: the body of the loop for question i
pdfQuestion(q, i, rendered, loads) ==
    (IF rendered THEN questionBlock(q, i) ELSE <<>>)
    \o (IF Truthy(q.url["Q"]) /\ loads
        THEN <<Item("image", i, "Q", 0, q.url["Q"])>> ELSE <<>>)
    \o Flatten([l \in 1..Len(Labels) |->
                   pdfOption(q, i, Labels[l], rendered, loads)])

\* handleExportWord: one option of question i
wordOption(q, i, label, loads) ==
    <<Item("option", i, label, 0, "")>>
    \o (IF Truthy(q.url[label]) /\ loads
        THEN <<Item("image", i, label, 0, q.url[label])>>
             \o (IF Truthy(q.alt[label])
                 THEN <<Item("caption", i, label, 0, q.alt[label])>>
                 ELSE <<>>)
        ELSE <<>>)

\* handleExportWord: the body of the loop for question i
wordQuestion(q, i, loads) ==
    questionBlock(q, i)
    \o (IF Truthy(q.url["Q"]) /\ loads
        THEN <<Item("image", i, "Q", 0, q.url["Q"])>>
             \o (IF Truthy(q.alt["Q"])
                 THEN <<Item("caption", i, "Q", 0, q.alt["Q"])>> ELSE <<>>)
        ELSE <<>>)
    \o Flatten([l \in 1..Len(Labels) |-> wordOption(q, i, Labels[l], loads)])

\* JSON.stringify of one field of a question: undefined is left out
jsonField(kind, q, i, slot, x) ==
    IF x = Undefined THEN <<>> ELSE <<Item(kind, i, slot, 0, x)>>

\* handleExportJSON: JSON.stringify of question i
jsonQuestion(q, i) ==
    questionBlock(q, i)
    \o jsonField("image", q, i, "Q", q.url["Q"])
    \o jsonField("caption", q, i, "Q", q.alt["Q"])
    \o Flatten([l \in 1..Len(Labels) |->
                   <<Item("option", i, Labels[l], 0, "")>>
                   \o jsonField("image", q, i, Labels[l], q.url[Labels[l]])
                   \o jsonField("caption", q, i, Labels[l], q.alt[Labels[l]])])

\* handleExportTXT: the body of questions.forEach for question i
txtQuestion(q, i) ==
    questionBlock(q, i)
    \o [l \in 1..Len(Labels) |-> Item("option", i, Labels[l], 0, "")]
    \o (IF Truthy(q.url["Q"])
        THEN <<Item("marker", i, "Q", 0, "")>> ELSE <<>>)

\* the items emitted before the export stopped at an image that never loads
RECURSIVE UntilHang(_)
UntilHang(items) ==
    IF items = <<>> \/ Head(items).kind = "hang" THEN <<>>
    ELSE <<Head(items)>> \o UntilHang(Tail(items))

\* an export of list in format, with the outcome of rendering and loading
export(format, list, rendered, loads) ==
    LET all == Flatten([i \in 1..Len(list) |->
                   IF format = "pdf"
                   THEN pdfQuestion(list[i], i, rendered, loads)
                   ELSE IF format = "word"
                   THEN wordQuestion(list[i], i, loads)
                   ELSE IF format = "json" THEN jsonQuestion(list[i], i)
                   ELSE txtQuestion(list[i], i)])
        items == UntilHang(all)
    IN [format |-> format, rendered |-> rendered, loads |-> loads,
        done |-> Len(items) = Len(all), items |-> items]

handleExportPDF(W, rendered, loads) ==
    LET e == export("pdf", W.questions, rendered, loads)
    IN [W EXCEPT !.exported = e,
                 !.message = IF e.done
                             THEN Note("PDF Report generated successfully.", 0)
                             ELSE Note("Generating professional PDF report...", 0)]

handleExportWord(W, rendered, loads) ==
    [W EXCEPT !.exported = export("word", W.questions, rendered, loads),
              !.message = Note("Word Document generated successfully.", 0)]

handleExportJSON(W) ==
    [W EXCEPT !.exported = export("json", W.questions, TRUE, TRUE)]

handleExportTXT(W) ==
    [W EXCEPT !.exported = export("txt", W.questions, TRUE, TRUE)]

-----------------------------------------------------------------------------
(* SpecQueue: RequestQueue with arbitrary tasks *)

Running(W) == {t \in DOMAIN W.tasks : W.tasks[t].st = "running"}

\* the add() calls made so far plus those the waiting tasks will make when
\* they start (each waiting task makes at most one)
Committed(W) ==
    Cardinality(DOMAIN W.tasks)
    + Cardinality({i \in 1..Len(W.queue) : W.tasks[W.queue[i]].spawn > 0})

\* new RequestQueue(), and the App before its first event
InitModule ==
    /\ queue = <<>>
    /\ activeRequests = 0
    /\ tasks = <<>>
    /\ ops = <<>>
    /\ fromTask = {}
    /\ calls = <<>>
    /\ step = "IDLE"
    /\ progress = [num |-> 0, den |-> 1]
    /\ message = Note("", 0)
    /\ questions = <<>>
    /\ pages = <<>>
    /\ allExtractedQuestions = <<>>
    /\ arrivals = <<>>
    /\ crop = NoCrop
    /\ exported = NoExport
    /\ clock = 0

InitQueue == InitModule /\ apiKey = TRUE

\* a caller outside the queue calls add(task)
Add ==
    \E spawn \in 0..1 :
        /\ Committed(World) + 1 + spawn <= MaxTasks
        /\ Becomes(add(World, GenericTask(spawn)))

\* a running task, resumed after an await, calls add(task)
AddFromTask ==
    \E spawn \in 0..1 :
        /\ Running(World) # {}
        /\ Committed(World) + 1 + spawn <= MaxTasks
        /\ Becomes(addFromTask(World, GenericTask(spawn)))

Settled(W) == {t \in DOMAIN W.tasks : W.tasks[t].st = "done"}

\* a running generic task returns its result
TaskReturns ==
    \E t \in Running(World) :
        /\ tasks[t].kind = "generic"
        /\ Cardinality(Settled(World)) < MaxSettled
        /\ Becomes(taskSettles(World, t, TRUE, <<"result", t>>))

\* a running generic task throws
TaskThrows ==
    \E t \in Running(World) :
        /\ tasks[t].kind = "generic"
        /\ Cardinality(Settled(World)) < MaxSettled
        /\ Becomes(taskSettles(World, t, FALSE, <<"error", t>>))

NextQueue == Add \/ AddFromTask \/ TaskReturns \/ TaskThrows

SpecQueue == InitQueue /\ [][NextQueue]_vars

-----------------------------------------------------------------------------
(* SpecDrain: callers submit more tasks than the queue runs at a time and  *)
(* every running task settles: the tasks with an even id return, those     *)
(* with an odd id throw.  SpecDrainFair adds that, while a task is         *)
(* running, one of the running tasks eventually settles: the promises of   *)
(* the tasks are assumed to settle.                                        *)

DrainAdd ==
    /\ Cardinality(DOMAIN tasks) < MaxDrainTasks
    /\ Becomes(add(World, GenericTask(0)))

\* the running task t returns or throws
DrainSettles(t) ==
    /\ t \in Running(World)
    /\ Becomes(taskSettles(World, t, t % 2 = 0,
                           <<IF t % 2 = 0 THEN "result" ELSE "error", t>>))

Settles == \E t \in 1..MaxDrainTasks : DrainSettles(t)

NextDrain == DrainAdd \/ Settles

SpecDrain == InitQueue /\ [][NextDrain]_vars

SpecDrainFair == SpecDrain /\ WF_vars(Settles)

-----------------------------------------------------------------------------
(* SpecRetry: retryWithBackoff called with any retry budget and delay *)

RetryBudgets == 0..MAX_RETRIES
InitialDelays == {0, 1, INITIAL_RETRY_DELAY}

InitRetry == InitQueue

\* retryWithBackoff(operation, retries, delay) is called
CallRetry ==
    \E retries \in RetryBudgets, delay \in InitialDelays :
        /\ Cardinality(DOMAIN ops) < MaxCalls
        /\ Becomes([World EXCEPT
               !.ops = @ @@ (NextId(ops) :> NewOp("direct", retries, delay, 0))])

\* the attempt in flight succeeds
AttemptReturns ==
    \E o \in Calling(World) :
        /\ ops[o].kind = "direct"
        /\ Becomes(opReturns(World, o, <<"result", o>>))

\* the attempt in flight fails
AttemptFails ==
    \E o \in Calling(World), error \in Errors :
        /\ ops[o].kind = "direct"
        /\ Becomes(opFails(World, o, error))

\* the backoff timer of a waiting call fires
BackoffElapses ==
    \E o \in Waiting(World) :
        /\ ops[o].kind = "direct"
        /\ Becomes(opRetries(World, o))

NextRetry == CallRetry \/ AttemptReturns \/ AttemptFails \/ BackoffElapses

SpecRetry == InitRetry /\ [][NextRetry]_vars

-----------------------------------------------------------------------------
(* The model API and the image decoder: what they are made to answer *)

\* a question without any bounding box
Q_Plain(n) == RawQuestion(n, FALSE, NoBox, NoBox, NoBox)

\* a question flagged as having a diagram, with a bounding box of its own
\* and one on option A
Q_Both(n) ==
    RawQuestion(n, TRUE, Box(<<100, 100, 200, 200>>),
                Box(<<300, 100, 350, 200>>), NoBox)

\* a question not flagged as having a diagram, with a bounding box of its
\* own, one on option A and one of no height on option B
Q_Unflagged(n) ==
    RawQuestion(n, FALSE, Box(<<100, 100, 200, 200>>),
                Box(<<300, 100, 350, 200>>), Box(<<400, 100, 400, 200>>))

\* data.questions of a parsed extraction response
PageResults ==
    { <<Q_Plain(1)>>,
      <<Q_Both(2), Q_Unflagged(1)>> }

Response(kind, text, qs) == [kind |-> kind, text |-> text, questions |-> qs]

ExtractResponses ==
    {Response("empty", "", <<>>), Response("malformed", "{", <<>>)}
    \cup {Response("json", "{...}", qs) : qs \in PageResults}

OcrResponses == {Response("text", "caption", <<>>), Response("text", "", <<>>)}

ResponsesFor(kind) == IF kind = "ocr" THEN OcrResponses ELSE ExtractResponses

\* the errors generateContent is made to throw under SpecService and SpecRun
CallErrors == {Error(429, 0, NoMessage), Error(500, 0, NoMessage)}

\* the number of rate-limit errors answered so far: those waited for and
\* those thrown to the caller
RateLimited(W) ==
    Cardinality({x \in OpIds(W) \X (1..(MAX_RETRIES + 1)) :
        \/ x[2] <= Len(W.ops[x[1]].waits)
        \/ /\ x[2] = Len(W.ops[x[1]].waits) + 1
           /\ W.ops[x[1]].phase = "thrown"
           /\ IsRateLimit(W.ops[x[1]].lastError)})

InFlight(W) == {o \in Calling(W) : W.ops[o].kind # "direct"}

\* the crops of a list of questions that load an image
Loads(qs) ==
    {x \in (1..Len(qs)) \X SlotSet :
        LaunchesCrop(qs[x[1]], x[2]) /\ ~cropResolvesAtOnce(qs[x[1]].bbox[x[2]])}

\* the number of crops of the extraction results returned so far that load
\* an image
Crops(W) ==
    Cardinality({x \in (DOMAIN W.calls) \X (1..MaxQuestionsPerPage) \X SlotSet :
        /\ W.calls[x[1]].fn = "extract"
        /\ W.calls[x[1]].st = "resolved"
        /\ <<x[2], x[3]>> \in Loads(W.calls[x[1]].value)})

\* generateContent returns
ModelCallReturns ==
    \E o \in InFlight(World) :
        \E response \in ResponsesFor(ops[o].kind) :
            /\ Crops(World) + Cardinality(Loads(response.questions)) <= MaxCrops
            /\ Becomes(callReturns(World, o, response))

\* generateContent throws, under SpecService
ModelCallFails ==
    \E o \in InFlight(World), error \in CallErrors :
        /\ IsRateLimit(error) => RateLimited(World) < MaxRateLimited
        /\ Becomes(callFails(World, o, error))

\* generateContent throws, under SpecRun
RunCallFails ==
    \E o \in InFlight(World), error \in CallErrors :
        /\ IsRateLimit(error) => RateLimited(World) < MaxThrottled
        /\ Becomes(callFails(World, o, error))

\* the timer of a backoff wait fires
BackoffFires ==
    \E o \in Waiting(World) :
        /\ ops[o].kind # "direct"
        /\ Becomes(opRetries(World, o))

-----------------------------------------------------------------------------
(* SpecService: the exported functions called by any caller *)

InitService == InitModule /\ apiKey \in BOOLEAN

ClientExtract ==
    \E pageNumber \in 1..2 :
        /\ Cardinality(DOMAIN calls) < MaxServiceCalls
        /\ Becomes(extractQuestionsFromPage(World, pageNumber, NoOwner))

ClientOCR ==
    /\ Cardinality(DOMAIN calls) < MaxServiceCalls
    /\ Becomes(performOCR(World, NoOwner))

NextService ==
    ClientExtract \/ ClientOCR \/ ModelCallReturns \/ ModelCallFails
    \/ BackoffFires

SpecService == InitService /\ [][NextService]_vars

-----------------------------------------------------------------------------
(* SpecRun: one run of handleProcess *)

InitRun == InitModule /\ apiKey \in BOOLEAN

\* FileUpload (rendered while step is IDLE) calls handleProcess(file): the
\* code up to `await convertPdfToImages(file)`
HandleProcess ==
    /\ step = "IDLE"
    /\ Becomes([World EXCEPT
           !.questions = <<>>,
           !.step = "LOADING_PDF",
           !.message = Note("Analyzing PDF document...", 0),
           !.progress = [num |-> 5, den |-> 1]])

\* throw new Error("Could not process PDF.")
convertError == Error(0, "", "Could not process PDF.")

runCaught_Mut(W, error) ==
    [W EXCEPT !.step = "ERROR",
              !.message = Note("Error occurred during extraction.", 0)]

\* catch (error) { setStep(ERROR); setMessage(error.message || '...') }
runCaught(W, error) ==
    [W EXCEPT !.step = "ERROR",
              !.message = Note(IF error.message # "" THEN error.message
                               ELSE "Error occurred during extraction.", 0)]

\* convertPdfToImages threw: the catch block of handleProcess
RasterizeFails ==
    /\ step = "LOADING_PDF"
    /\ Becomes(runCaught(World, convertError))

RECURSIVE launchPages(_, _)
\* pages.map(async (page) => ...) from page p on: each callback runs up to
\* its first await; extractQuestionsFromPage throws at once without a key
launchPages(W, p) ==
    IF p > Len(W.pages) THEN W
    ELSE LET W1 == extractQuestionsFromPage(W, W.pages[p].pageNumber,
                                            Owner(p, 0, "Q"))
         IN launchPages([W1 EXCEPT !.pages[p].st =
                            IF ThrewAtOnce(W1, Owner(p, 0, "Q")) THEN "caught"
                            ELSE "extracting"], p + 1)

\* convertPdfToImages returned n pages: handleProcess up to
\* `await Promise.all(pagePromises)`, and past it when no page awaits
RasterizeReturns ==
    \E n \in 0..MaxPages :
        /\ step = "LOADING_PDF"
        /\ Becomes(settleRun(launchPages(
               [World EXCEPT
                   !.step = "EXTRACTING_DATA",
                   !.message = Note("Extracting content from pages in parallel...", n),
                   !.progress = [num |-> 15 * Max(n, 1), den |-> Max(n, 1)],
                   !.allExtractedQuestions = <<>>,
                   !.pages = [p \in 1..n |->
                                 [pageNumber |-> p, st |-> "new",
                                  qs |-> <<>>, slots |-> <<>>]]],
               1)))

Cropping(W) ==
    {x \in [page : PageIds(W), q : 1..MaxQuestionsPerPage, slot : SlotSet] :
        /\ x.q <= Len(W.pages[x.page].slots)
        /\ W.pages[x.page].slots[x.q][x.slot] = "cropping"}

\* the image of a crop loads (cropDiagram resolves with the data URL), or
\* fails to load or times out (it resolves with '')
ImageSettles ==
    \E x \in Cropping(World), url \in {DataUrl, ""} :
        Becomes(onCropped(World, x.page, x.q, x.slot, url))

NextRun ==
    HandleProcess \/ RasterizeFails \/ RasterizeReturns \/ ImageSettles
    \/ ModelCallReturns \/ RunCallFails \/ BackoffFires

SpecRun == InitRun /\ [][NextRun]_vars

-----------------------------------------------------------------------------
(* SpecFinish: one run of handleProcess over a document of no, one or two  *)
(* pages.  SpecFinishFair adds that convertPdfToImages settles (weak       *)
(* fairness of its two outcomes) and that again and again no model call is *)
(* in flight, no backoff timer is pending and no crop is pending: a run    *)
(* makes finitely many calls, waits and crops, each of them is left only   *)
(* by its own settling, and its settling is enabled for as long as it is   *)
(* pending, so these say that every call settles, every timer fires and    *)
(* every crop settles (cropDiagram has its own timeout).  Starting a run   *)
(* is left to the user.                                                    *)

\* the numbers of pages convertPdfToImages returns
DocumentSizes == {0, 1, 2}

ConvertReturns ==
    \E n \in DocumentSizes :
        /\ step = "LOADING_PDF"
        /\ Becomes(settleRun(launchPages(
               [World EXCEPT
                   !.step = "EXTRACTING_DATA",
                   !.message = Note("Extracting content from pages in parallel...", n),
                   !.progress = [num |-> 15 * Max(n, 1), den |-> Max(n, 1)],
                   !.allExtractedQuestions = <<>>,
                   !.pages = [p \in 1..n |->
                                 [pageNumber |-> p, st |-> "new",
                                  qs |-> <<>>, slots |-> <<>>]]],
               1)))

NextFinish ==
    HandleProcess \/ RasterizeFails \/ ConvertReturns \/ ImageSettles
    \/ ModelCallReturns \/ RunCallFails \/ BackoffFires

SpecFinish == InitRun /\ [][NextFinish]_vars

SpecFinishFair ==
    /\ SpecFinish
    /\ WF_vars(ConvertReturns \/ RasterizeFails)
    /\ []<>(InFlight(World) = {})
    /\ []<>(Waiting(World) = {})
    /\ []<>(Cropping(World) = {})

-----------------------------------------------------------------------------
(* SpecSession: the user's actions around runs of handleProcess.  The page *)
(* shows FileUpload only while step is IDLE, and the reset button only     *)
(* while step is not IDLE and the question list is not empty.  A document  *)
(* is submitted here only when no call, timer or crop of an earlier run is *)
(* pending; the promises of the earlier run are then all settled and no    *)
(* longer reachable, and the tables that record them start empty again.    *)

uploadOffered(W) == W.step = "IDLE"

resetOffered_Mut(W) == W.step # "IDLE"

\* {step === IDLE ? ... : (... {questions.length > 0 && (... onClick={reset})})}
resetOffered(W) == W.step # "IDLE" /\ Len(W.questions) > 0

\* setStep(IDLE); setQuestions([]); setProgress(0); setMessage('')
reset(W) ==
    [W EXCEPT !.step = "IDLE",
              !.questions = <<>>,
              !.progress = [num |-> 0, den |-> 1],
              !.message = Note("", 0)]

\* nothing of an earlier run is pending
Quiescent(W) ==
    /\ W.queue = <<>> /\ W.activeRequests = 0
    /\ Calling(W) = {} /\ Waiting(W) = {} /\ Cropping(W) = {}

\* the tables of a run before its first call
forget(W) ==
    [W EXCEPT !.tasks = <<>>, !.ops = <<>>, !.calls = <<>>, !.fromTask = {},
              !.pages = <<>>, !.allExtractedQuestions = <<>>]

\* the user clicks the reset button
Reset == resetOffered(World) /\ Becomes(reset(World))

\* the user selects a document: handleProcess up to
\* `await convertPdfToImages(file)`
Submit ==
    /\ uploadOffered(World)
    /\ Quiescent(World)
    /\ Becomes([forget(World) EXCEPT
           !.questions = <<>>,
           !.step = "LOADING_PDF",
           !.message = Note("Analyzing PDF document...", 0),
           !.progress = [num |-> 5, den |-> 1]])

NextSession ==
    Submit \/ Reset \/ RasterizeFails \/ ConvertReturns \/ ImageSettles
    \/ ModelCallReturns \/ RunCallFails \/ BackoffFires

SpecSession == InitRun /\ [][NextSession]_vars

-----------------------------------------------------------------------------
(* SpecOrder: one run of handleProcess over pages without diagrams, whose  *)
(* extraction results repeat question numbers; arrivals records the order  *)
(* in which the page callbacks finished, and time passes between the       *)
(* steps.                                                                  *)

\* data.questions of a parsed extraction response
OrderResults ==
    { <<Q_Plain(1)>>,
      <<Q_Plain(1), Q_Plain(1)>>,
      <<Q_Plain(2), Q_Plain(1)>> }

InitOrder == InitModule /\ apiKey = TRUE

\* generateContent returns for the extraction of a page
PageReturns ==
    \E o \in InFlight(World), qs \in OrderResults :
        Becomes([callReturns(World, o, Response("json", "{...}", qs))
                    EXCEPT !.arrivals = Append(@, calls[o].owner.page)])

\* generateContent throws for the extraction of a page
PageFails ==
    \E o \in InFlight(World), error \in CallErrors :
        /\ IsRateLimit(error) => RateLimited(World) < MaxThrottled
        /\ Becomes([callFails(World, o, error)
                      EXCEPT !.arrivals =
                          IF IsRateLimit(error) THEN @
                          ELSE Append(@, calls[o].owner.page)])

\* a millisecond passes
Tick ==
    /\ clock < MaxClock
    /\ Becomes([World EXCEPT !.clock = @ + 1])

NextOrder ==
    HandleProcess \/ RasterizeFails \/ RasterizeReturns \/ PageReturns
    \/ PageFails \/ BackoffFires \/ Tick

SpecOrder == InitOrder /\ [][NextOrder]_vars

-----------------------------------------------------------------------------
(* SpecCrop: one call of cropDiagram with any arguments, and the events of *)
(* its image and timer in any order.  SpecCropFair adds that an armed      *)
(* timer fires: the event loop runs the callback of a timer that was not   *)
(* cleared.                                                                *)

\* the components of the bounding boxes passed to cropDiagram
CropCoords == {0, 1, 500, 1000}

\* bbox: undefined, an array of three numbers, or [ymin, xmin, ymax, xmax]
CropBoxes ==
    {NoBox, Box(<<0, 0, 500>>)}
    \cup {Box(<<a, b, c, d>>) : a, b, c, d \in CropCoords}

\* img.naturalWidth || img.width, img.naturalHeight || img.height
ImageSizes == {0, 30, 2000}

InitCrop == InitModule /\ apiKey = TRUE

CropDiagram ==
    /\ crop.st = "none"
    /\ \E base64Image \in {"", "base64"}, bbox \in CropBoxes :
          Becomes(cropDiagram(World, base64Image, bbox))

\* the load event of the image; after the timer fired it can still arrive
ImageLoads ==
    /\ crop.img = "loading"
    /\ \E sourceW, sourceH \in ImageSizes :
          \E canvas \in {"drawn", "noContext", "throws"} :
              Becomes(onload(World, sourceW, sourceH, canvas))

ImageErrors ==
    /\ crop.img = "loading"
    /\ Becomes(onerror(World))

TimeoutFires ==
    /\ crop.timer = "armed"
    /\ Becomes(onTimeout(World))

NextCrop == CropDiagram \/ ImageLoads \/ ImageErrors \/ TimeoutFires

SpecCrop == InitCrop /\ [][NextCrop]_vars

SpecCropFair == SpecCrop /\ WF_vars(TimeoutFires)

-----------------------------------------------------------------------------
(* SpecBurst: a caller submits one extraction more than the queue runs at  *)
(* a time, in one synchronous pass, as pages.map does for a document of    *)
(* that many pages; the model answers with rate-limit errors and captions. *)

BurstSize == MAX_CONCURRENT_REQUESTS + 1

RECURSIVE burst(_, _)
\* extractQuestionsFromPage for the pages from pageNumber on
burst(W, pageNumber) ==
    IF pageNumber > BurstSize THEN W
    ELSE burst(extractQuestionsFromPage(W, pageNumber, NoOwner),
               pageNumber + 1)

\* the number of backoff timers that fired so far
Fired(W) ==
    Cardinality({x \in OpIds(W) \X (1..MAX_RETRIES) :
        x[2] < W.ops[x[1]].attempts})

\* the number of operations that returned so far
Returned(W) == Cardinality({o \in OpIds(W) : W.ops[o].phase = "returned"})

InitBurst == InitModule /\ apiKey = TRUE

Burst ==
    /\ DOMAIN calls = {}
    /\ Becomes(burst(World, 1))

\* generateContent throws a rate-limit error
BurstCallThrottled ==
    \E o \in InFlight(World) :
        /\ RateLimited(World) < MaxBurstThrottled
        /\ Becomes(callFails(World, o, Error(429, 0, NoMessage)))

\* generateContent returns an empty body
BurstCallReturns ==
    \E o \in InFlight(World) :
        /\ Returned(World) < MaxBurstReturns
        /\ Becomes(callReturns(World, o, Response("empty", "", <<>>)))

\* the timer of a backoff wait fires
BurstTimerFires ==
    \E o \in Waiting(World) :
        /\ Fired(World) < MaxBurstFires
        /\ Becomes(opRetries(World, o))

NextBurst ==
    Burst \/ BurstCallThrottled \/ BurstCallReturns \/ BurstTimerFires

SpecBurst == InitBurst /\ [][NextBurst]_vars

-----------------------------------------------------------------------------
(* SpecExport: the exports of a completed run's question list *)

\* a slot of a question of the final list: no diagram, a diagram with a
\* caption, or a diagram whose caption call returned the empty string
Diagrams ==
    { [url |-> Undefined, alt |-> Undefined],
      [url |-> DataUrl, alt |-> "caption"],
      [url |-> DataUrl, alt |-> ""] }

\* the bounding box of a slot that has diagram d
BoxOf(d) == IF d.url = Undefined THEN NoBox ELSE Box(<<100, 100, 200, 200>>)

\* question idx of page 1, with diagram dq on the question and da on option A
ExportQuestion(number, idx, dq, da) ==
    [withIds(<<RawQuestion(number, dq.url # Undefined, BoxOf(dq), BoxOf(da),
                           NoBox)>>, 1, 0)[1] EXCEPT
        !.id = formatId(1, idx, 0),
        !.url = [s \in SlotSet |-> IF s = "Q" THEN dq.url
                                   ELSE IF s = "A" THEN da.url ELSE Undefined],
        !.alt = [s \in SlotSet |-> IF s = "Q" THEN dq.alt
                                   ELSE IF s = "A" THEN da.alt ELSE Undefined]]

\* the one- and two-question lists the exports are applied to
ExportLists ==
    { <<ExportQuestion(n, 0, dq, da)>> :
          n \in {1, 2}, dq \in Diagrams, da \in Diagrams }
    \cup { <<ExportQuestion(1, 0, dq, da), ExportQuestion(2, 1, eq, ea)>> :
          dq \in Diagrams, da \in Diagrams, eq \in Diagrams, ea \in Diagrams }

\* a completed run with a non-empty list: the export menu is rendered
InitExport ==
    /\ queue = <<>> /\ activeRequests = 0 /\ tasks = <<>> /\ ops = <<>>
    /\ fromTask = {} /\ calls = <<>> /\ apiKey = TRUE
    /\ pages = <<>> /\ allExtractedQuestions = <<>> /\ arrivals = <<>>
    /\ crop = NoCrop /\ exported = NoExport /\ clock = 0
    /\ step = "COMPLETED"
    /\ progress = completedProgress
    /\ questions \in ExportLists
    /\ message = completedMessage(questions)

ExportPDF ==
    /\ step # "IDLE" /\ Len(questions) > 0
    /\ \E rendered, loads \in BOOLEAN :
          Becomes(handleExportPDF(World, rendered, loads))

ExportWord ==
    /\ step # "IDLE" /\ Len(questions) > 0
    /\ \E rendered, loads \in BOOLEAN :
          Becomes(handleExportWord(World, rendered, loads))

ExportJSON ==
    /\ step # "IDLE" /\ Len(questions) > 0
    /\ Becomes(handleExportJSON(World))

ExportTXT ==
    /\ step # "IDLE" /\ Len(questions) > 0
    /\ Becomes(handleExportTXT(World))

NextExport == ExportPDF \/ ExportWord \/ ExportJSON \/ ExportTXT

SpecExport == InitExport /\ [][NextExport]_vars

-----------------------------------------------------------------------------
(* SpecSort: allExtractedQuestions.sort(compare) applied, any number of    *)
(* times, to any list of questions of two pages with repeated numbers.     *)

\* the question pushed in place k, from page p with question number n
SortQuestion(k, p, n) ==
    [withIds(<<Q_Plain(n)>>, p, 0)[1] EXCEPT !.id = formatId(p, k, 0)]

SortLists ==
    UNION { { [k \in 1..len |-> SortQuestion(k, f[k][1], f[k][2])] :
                f \in [1..len -> {1, 2} \X {1, 2}] } : len \in 0..MaxSortLen }

InitSort ==
    /\ queue = <<>> /\ activeRequests = 0 /\ tasks = <<>> /\ ops = <<>>
    /\ fromTask = {} /\ calls = <<>> /\ apiKey = TRUE
    /\ pages = <<>> /\ arrivals = <<>>
    /\ crop = NoCrop /\ exported = NoExport /\ clock = 0
    /\ step = "EXTRACTING_DATA"
    /\ progress = [num |-> 15, den |-> 1]
    /\ message = Note("", 0)
    /\ questions = <<>>
    /\ allExtractedQuestions \in SortLists

\* allExtractedQuestions.sort(...): sorts the array in place; setQuestions
Sort ==
    Becomes([World EXCEPT !.allExtractedQuestions = sort(@),
                          !.questions = sort(allExtractedQuestions)])

NextSort == Sort

SpecSort == InitSort /\ [][NextSort]_vars

-----------------------------------------------------------------------------
(* SpecShared: callers make more extraction and caption calls, in any      *)
(* mix and order, than the queue runs at a time.                           *)

InitShared == InitModule /\ apiKey = TRUE

SharedExtract ==
    /\ Cardinality(DOMAIN calls) < MaxSharedCalls
    /\ Becomes(extractQuestionsFromPage(World, 1, NoOwner))

SharedOCR ==
    /\ Cardinality(DOMAIN calls) < MaxSharedCalls
    /\ Becomes(performOCR(World, NoOwner))

\* generateContent returns
SharedCallReturns ==
    \E o \in InFlight(World) :
        /\ Returned(World) < MaxSharedReturns
        /\ Becomes(callReturns(World, o,
               IF ops[o].kind = "ocr" THEN Response("text", "caption", <<>>)
               ELSE Response("empty", "", <<>>)))

NextShared == SharedExtract \/ SharedOCR \/ SharedCallReturns

SpecShared == InitShared /\ [][NextShared]_vars

-----------------------------------------------------------------------------
(* Claims about RequestQueue, checked under SpecQueue *)

TaskIds == DOMAIN tasks

\* C1: in every reachable state the number of tasks started and not yet
\* settled is activeRequests, and it is at most MAX_CONCURRENT_REQUESTS,
\* whatever the add() calls (from callers and from running tasks) and
\* completions were.
C1_ConcurrencyBound ==
    /\ activeRequests = Cardinality(Running(World))
    /\ activeRequests <= MAX_CONCURRENT_REQUESTS

\* the limit is reached with a task submitted by a running task waiting
C1_Witness ==
    /\ activeRequests = MAX_CONCURRENT_REQUESTS
    /\ queue # <<>>
    /\ Head(queue) \in fromTask

\* C2: a step that settles the handle of task t settles it with t's own
\* outcome (resolved with t's result, rejected with t's error) and settles
\* no other handle; a settled handle never changes; and a step in which t's
\* handle is rejected leaves every other running task running and starts
\* the task at the head of the pending list.
C2_OwnOutcomeStep ==
    \A t \in TaskIds :
        /\ tasks[t].handle # "pending" => tasks'[t] = tasks[t]
        /\ (tasks[t].handle = "pending" /\ tasks'[t].handle # "pending") =>
              /\ tasks[t].st = "running"
              /\ tasks'[t].value \in {<<"result", t>>, <<"error", t>>}
              /\ tasks'[t].handle = "resolved" <=> tasks'[t].value = <<"result", t>>
              /\ tasks'[t].handle = "rejected" <=> tasks'[t].value = <<"error", t>>
              /\ \A u \in TaskIds \ {t} : tasks'[u].handle = tasks[u].handle
        /\ (tasks[t].handle = "pending" /\ tasks'[t].handle = "rejected") =>
              /\ \A u \in TaskIds \ {t} :
                    tasks[u].st = "running" => tasks'[u].st = "running"
              /\ queue # <<>> => tasks'[Head(queue)].st = "running"

C2_OwnOutcome == [][C2_OwnOutcomeStep]_vars

\* a task that had to wait was started and resolved after an earlier task
\* had been rejected
C2_Witness ==
    \E t, u \in TaskIds :
        /\ t < u
        /\ u > MAX_CONCURRENT_REQUESTS
        /\ tasks[t].handle = "rejected"
        /\ tasks[u].handle = "resolved"
        /\ tasks[u].value = <<"result", u>>

\* C3: tasks are started in the order of their add() calls (task ids are
\* given in that order): no step starts a task while a task added before it
\* is left waiting, and the pending list holds the waiting tasks in the
\* order of their add() calls.
C3_FifoStep ==
    /\ \A t \in DOMAIN tasks' :
          (tasks'[t].st # "queued" /\ (t \in TaskIds => tasks[t].st = "queued"))
          => \A u \in DOMAIN tasks' : tasks'[u].st = "queued" => t < u
    /\ \A i \in 1..(Len(queue') - 1) : queue'[i] < queue'[i + 1]
    /\ \A u \in DOMAIN tasks' :
          tasks'[u].st = "queued" <=> \E i \in 1..Len(queue') : queue'[i] = u

C3_FifoStart == [][C3_FifoStep]_vars

\* a task that was added behind another waiting task has been started
C3_Witness ==
    /\ \E t \in TaskIds : tasks[t].behind /\ tasks[t].st # "queued"
    /\ activeRequests = MAX_CONCURRENT_REQUESTS

-----------------------------------------------------------------------------
(* Claims about retryWithBackoff, checked under SpecRetry *)

\* C4: a call with retry budget r0 and initial delay d0 attempts the
\* operation at most r0 + 1 times; every attempt after the first follows
\* exactly one wait; the first wait is d0 and each later wait is exactly
\* double the one before it.
C4_AttemptsAndDoubling ==
    \A o \in DOMAIN ops :
        LET op == ops[o] IN
        /\ op.attempts <= op.r0 + 1
        /\ Len(op.waits) = IF op.phase = "wait" THEN op.attempts
                                               ELSE op.attempts - 1
        /\ Len(op.waits) >= 1 => op.waits[1] = op.d0
        /\ \A i \in 1..(Len(op.waits) - 1) : op.waits[i + 1] = 2 * op.waits[i]

\* the default budget used up: six attempts, waits of 2, 4, 8, 16, 32 s
C4_Witness ==
    \E o \in DOMAIN ops :
        /\ ops[o].r0 = MAX_RETRIES
        /\ ops[o].attempts = MAX_RETRIES + 1
        /\ ops[o].waits = <<2000, 4000, 8000, 16000, 32000>>
        /\ ops[o].phase = "thrown"

\* the claim's classification of a failure as a rate-limit error
C5_RateLimitError(error) ==
    \/ error.status = 429
    \/ error.code = 429
    \/ error.message.defined /\ Includes(error.message.text, <<"4", "2", "9">>)
    \/ error.message.defined
       /\ Includes(error.message.text, <<"q", "u", "o", "t", "a">>)

\* C5: when an attempt fails, the call waits for another attempt if and
\* only if the failure is a rate-limit error and retries remain; otherwise
\* the failure is thrown to the caller in the same step, with no timer set
\* and no further attempt.  A further attempt is made only after such a
\* wait, and a call that returned or threw does nothing more.
C5_RetryStep ==
    \A o \in DOMAIN ops :
        LET a == ops[o]
            b == ops'[o]
        IN
        /\ a.phase \in {"returned", "thrown"} => b = a
        /\ (a.phase = "call" /\ b.phase \in {"wait", "thrown"}) =>
              IF C5_RateLimitError(b.lastError) /\ a.retries > 0
              THEN /\ b.phase = "wait"
                   /\ b.waits = Append(a.waits, a.delay)
                   /\ b.attempts = a.attempts
              ELSE /\ b.phase = "thrown"
                   /\ b.value = b.lastError
                   /\ b.waits = a.waits
                   /\ b.attempts = a.attempts
        /\ b.attempts # a.attempts =>
              /\ a.phase = "wait"
              /\ b.phase = "call"
              /\ b.attempts = a.attempts + 1
              /\ b.retries = a.retries - 1
        /\ a.phase = "wait" => b.phase \in {"wait", "call"}

C5_RetryIffRateLimited == [][C5_RetryStep]_vars

\* a call that was retried after a rate-limit error and then threw another
\* kind of failure although retries were left
C5_Witness ==
    \E o \in DOMAIN ops :
        /\ ops[o].phase = "thrown"
        /\ Len(ops[o].waits) >= 1
        /\ ops[o].retries > 0
        /\ ~C5_RateLimitError(ops[o].lastError)
        /\ ops[o].value = ops[o].lastError

\* C6: a call with zero retries makes exactly one attempt, never waits,
\* and when the attempt fails throws that attempt's error, rate-limit error
\* or not.
C6_ZeroRetries ==
    \A o \in DOMAIN ops :
        ops[o].r0 = 0 =>
            /\ ops[o].attempts = 1
            /\ ops[o].waits = <<>>
            /\ ops[o].phase \in {"call", "returned", "thrown"}
            /\ ops[o].phase = "thrown" => ops[o].value = ops[o].lastError

\* a call with zero retries threw a rate-limit error
C6_Witness ==
    \E o \in DOMAIN ops :
        /\ ops[o].r0 = 0
        /\ ops[o].phase = "thrown"
        /\ ops[o].value.code = 429

-----------------------------------------------------------------------------
(* Claims about the exported functions, checked under SpecService *)

\* C7: while no credential is configured, a step in which
\* extractQuestionsFromPage or performOCR is called settles that call as
\* rejected with the configuration error, adds no task to the request queue,
\* leaves the pending list and the active count as they were and starts no
\* retryWithBackoff call, hence no model call and no retry delay.
C7_NoKeyStep ==
    ~apiKey =>
        /\ queue' = queue
        /\ activeRequests' = activeRequests
        /\ tasks' = tasks
        /\ ops' = ops
        /\ \A c \in DOMAIN calls' \ DOMAIN calls :
              /\ calls'[c].st = "rejected"
              /\ calls'[c].value = ConfigError
              /\ calls'[c].task = 0

C7_NoKeyFailsBeforeQueue == [][C7_NoKeyStep]_vars

\* without a credential, an extraction call and a caption call were made
C7_Witness ==
    /\ ~apiKey
    /\ \E c, d \in DOMAIN calls :
          /\ calls[c].fn = "extract" /\ calls[c].st = "rejected"
          /\ calls[d].fn = "ocr" /\ calls[d].st = "rejected"
    /\ queue = <<>> /\ activeRequests = 0 /\ DOMAIN tasks = {}

-----------------------------------------------------------------------------
(* Claims about handleProcess, checked under SpecRun *)

\* the extraction call of page p, and the caption call of slot s of
\* question i of page p
ExtractionOf(p) == CallId(World, Owner(p, 0, "Q"))
CaptionOf(p, i, s) == CallId(World, Owner(p, i, s))

Settled_As(c, st) == c \in DOMAIN calls /\ calls[c].st = st

\* the question with the given id is in the question list
Listed(id) == \E k \in 1..Len(questions) : questions[k].id = id

\* C8: when the extraction call of page p has failed, the run is not in
\* ERROR, and once it is COMPLETED the question list holds no question of
\* page p and holds every question that the extraction of any other page
\* returned.
C8_FailedPageIsolated ==
    \A p \in PageIds(World) :
        Settled_As(ExtractionOf(p), "rejected") =>
            /\ step # "ERROR"
            /\ step = "COMPLETED" =>
                  /\ \A k \in 1..Len(questions) :
                        questions[k].page_number # pages[p].pageNumber
                  /\ \A r \in PageIds(World) \ {p} :
                        Settled_As(ExtractionOf(r), "resolved") =>
                            \A i \in 1..Len(calls[ExtractionOf(r)].value) :
                                Listed(calls[ExtractionOf(r)].value[i].id)

\* the crop of slot s of question i of page p was launched and returned the
\* empty result, or the caption call made for it failed
SlotFailed(p, i, s) ==
    \/ Settled_As(CaptionOf(p, i, s), "rejected")
    \/ /\ LaunchesCrop(pages[p].qs[i], s)
       /\ pages[p].slots[i][s] = "done"
       /\ pages[p].qs[i].url[s] = Undefined

\* C9: once the run is COMPLETED, a question with a slot whose crop or
\* caption failed is in the question list with the number, flag and
\* bounding boxes extraction gave it, and with that slot's image and caption
\* unset.
C9_QuestionSurvivesSlotFailure ==
    step = "COMPLETED" =>
        \A p \in PageIds(World) :
            Settled_As(ExtractionOf(p), "resolved") =>
                \A i \in 1..Len(calls[ExtractionOf(p)].value), s \in SlotSet :
                    SlotFailed(p, i, s) =>
                        LET q == calls[ExtractionOf(p)].value[i] IN
                        \E k \in 1..Len(questions) :
                            /\ questions[k].id = q.id
                            /\ questions[k].page_number = q.page_number
                            /\ questions[k].question_number = q.question_number
                            /\ questions[k].has_diagram = q.has_diagram
                            /\ questions[k].bbox = q.bbox
                            /\ questions[k].url[s] = Undefined
                            /\ questions[k].alt[s] = Undefined

\* a bounding box cropDiagram accepts
ValidBox(bbox) == bbox.present /\ Len(bbox.v) = 4 /\ ~cropResolvesAtOnce(bbox)

\* C10: for a question flagged as having a diagram, with a valid bounding
\* box of its own and a valid one on option A, both crops are launched in
\* the step in which extraction returns, and once the run is COMPLETED with
\* both crops and both captions of the question succeeded, the question is
\* in the question list with diagram_url, diagram_alt_text, A_diagram_url
\* and A_diagram_alt_text set.
C10_BothDiagramsAttached ==
    \A p \in PageIds(World) :
        Settled_As(ExtractionOf(p), "resolved") =>
            \A i \in 1..Len(calls[ExtractionOf(p)].value) :
                LET q == calls[ExtractionOf(p)].value[i] IN
                (q.has_diagram /\ ValidBox(q.bbox["Q"]) /\ ValidBox(q.bbox["A"])) =>
                    /\ pages[p].slots[i]["Q"] # "none"
                    /\ pages[p].slots[i]["A"] # "none"
                    /\ ( /\ step = "COMPLETED"
                         /\ Settled_As(CaptionOf(p, i, "Q"), "resolved")
                         /\ Settled_As(CaptionOf(p, i, "A"), "resolved") )
                       => \E k \in 1..Len(questions) :
                             /\ questions[k].id = q.id
                             /\ questions[k].url["Q"] = DataUrl
                             /\ questions[k].alt["Q"] = calls[CaptionOf(p, i, "Q")].value
                             /\ questions[k].url["A"] = DataUrl
                             /\ questions[k].alt["A"] = calls[CaptionOf(p, i, "A")].value

\* C11: in a run over one page whose extraction returned one question
\* without any bounding box, no crop is launched and no caption call is
\* made, the run is COMPLETED with progress 100, and the question list is
\* exactly that question with no image and no caption set.
C11_PlainQuestionPage ==
    ( /\ Len(pages) = 1
      /\ Settled_As(ExtractionOf(1), "resolved")
      /\ Len(calls[ExtractionOf(1)].value) = 1
      /\ \A s \in SlotSet : ~calls[ExtractionOf(1)].value[1].bbox[s].present )
    => /\ DOMAIN calls = {ExtractionOf(1)}
       /\ \A s \in SlotSet : pages[1].slots[1][s] = "none"
       /\ step = "COMPLETED"
       /\ progress.num = 100 * progress.den
       /\ questions = calls[ExtractionOf(1)].value
       /\ \A s \in SlotSet :
             /\ questions[1].url[s] = Undefined
             /\ questions[1].alt[s] = Undefined

\* the one-page run with one question without bounding boxes is COMPLETED
C11_Witness ==
    /\ Len(pages) = 1
    /\ Settled_As(ExtractionOf(1), "resolved")
    /\ Len(calls[ExtractionOf(1)].value) = 1
    /\ \A s \in SlotSet : ~calls[ExtractionOf(1)].value[1].bbox[s].present
    /\ step = "COMPLETED"
    /\ Len(questions) = 1

\* C12: when the run is COMPLETED the question list is in ascending order
\* of page number and, among questions of one page number, in ascending
\* order of question number.
C12_SortedWhenCompleted ==
    step = "COMPLETED" =>
        \A i, j \in 1..Len(questions) :
            i < j =>
                \/ questions[i].page_number < questions[j].page_number
                \/ /\ questions[i].page_number = questions[j].page_number
                   /\ questions[i].question_number <= questions[j].question_number

\* a COMPLETED run over two pages, one of which returned its questions in
\* descending order of question number
C12_Witness ==
    /\ step = "COMPLETED"
    /\ Len(questions) >= 3
    /\ \E k \in 1..Len(questions) : questions[k].page_number = 1
    /\ \E k \in 1..Len(questions) : questions[k].page_number = 2
    /\ \E p \in PageIds(World) :
          /\ pages[p].st = "pushed"
          /\ Len(pages[p].qs) = 2
          /\ pages[p].qs[1].question_number > pages[p].qs[2].question_number

-----------------------------------------------------------------------------
(* Claims about the order of the question list, checked under SpecOrder *)

\* the questions the page callbacks pushed: <<p, i>> is question i of page p
PushedQuestions ==
    {x \in PageIds(World) \X (1..MaxQuestionsPerPage) :
        pages[x[1]].st = "pushed" /\ x[2] <= Len(pages[x[1]].qs)}

\* the index of question q in the extraction result of its page
IndexInPage(q) ==
    CHOOSE i \in 1..Len(pages[q.page_number].qs) :
        pages[q.page_number].qs[i].id = q.id

\* a comes before b by page number, then question number, then index in
\* the page's extraction result
Precedes(a, b) ==
    \/ a.page_number < b.page_number
    \/ /\ a.page_number = b.page_number
       /\ \/ a.question_number < b.question_number
          \/ /\ a.question_number = b.question_number
             /\ IndexInPage(a) < IndexInPage(b)

\* C13: when the run is COMPLETED the question list holds exactly the
\* questions of the pages that were pushed, ordered by page number, then
\* question number, then position in the page's extraction result; this
\* list is determined by the per-page results alone, so it is the same for
\* every order in which the pages finished.
C13_OrderIndependent ==
    step = "COMPLETED" =>
        /\ Len(questions) = Cardinality(PushedQuestions)
        /\ \A x \in PushedQuestions :
              \E k \in 1..Len(questions) : questions[k] = pages[x[1]].qs[x[2]]
        /\ \A i, j \in 1..Len(questions) :
              i < j => Precedes(questions[i], questions[j])

\* page 2 finished before page 1, and a page returned two questions with
\* the same question number
C13_Witness ==
    /\ step = "COMPLETED"
    /\ arrivals = <<2, 1>>
    /\ \E i \in 1..(Len(questions) - 1) :
          /\ questions[i].page_number = questions[i + 1].page_number
          /\ questions[i].question_number = questions[i + 1].question_number
    /\ \E k \in 1..Len(questions) : questions[k].page_number = 1
    /\ \E k \in 1..Len(questions) : questions[k].page_number = 2

-----------------------------------------------------------------------------
(* Claims about progress and the terminal states, checked under SpecRun *)

\* progress did not decrease in this step (fractions compared by
\* cross-multiplication)
ProgressStep ==
    progress'.num * progress.den >= progress.num * progress'.den

\* C14: during one run that starts from the reset state, progress starts
\* at 0, never decreases, and is 100 whenever the run is COMPLETED, however
\* many pages there are and in whatever order pages are pushed or caught.
C14_ProgressMonotone ==
    /\ progress.num = 0
    /\ [][ProgressStep]_vars
    /\ [](step = "COMPLETED" => progress.num = 100 * progress.den)

\* a completed run of two pages, one pushed and one caught
C14_Witness ==
    /\ step = "COMPLETED"
    /\ progress.num = 100 * progress.den
    /\ Len(pages) = 2
    /\ \E p, r \in PageIds(World) :
          pages[p].st = "pushed" /\ pages[r].st = "caught"

Terminal == {"COMPLETED", "ERROR"}

\* what a step may do to the step, message and question list of the run
TerminalStep ==
    /\ step \in Terminal => step' = step /\ questions' = questions
    /\ (step \notin Terminal /\ step' = "COMPLETED") =>
          /\ message'.text = "Extracted questions"
          /\ message'.n = Len(questions')
    /\ (step \notin Terminal /\ step' = "ERROR") => message'.text # ""

\* C15: a run sets at most one terminal state: the step that sets COMPLETED
\* sets a message whose count is the length of the question list, the step
\* that sets ERROR sets a non-empty message, and once the step is COMPLETED
\* or ERROR no later step of the run changes the step or the list.
C15_OneTerminalState == [][TerminalStep]_vars

\* a completed run whose message counts the two questions of the list
C15_Witness ==
    /\ step = "COMPLETED"
    /\ Len(questions) = 2
    /\ message = Note("Extracted questions", 2)

\* C16: when rasterization has failed the run is in ERROR with the message
\* "Could not process PDF.", no page was ever handed to the pipeline, no
\* extraction or caption call was made or queued, and the question list is
\* empty.
C16_RasterizeFailureAborts ==
    step = "ERROR" =>
        /\ message = Note("Could not process PDF.", 0)
        /\ pages = <<>>
        /\ DOMAIN calls = {} /\ DOMAIN ops = {} /\ DOMAIN tasks = {}
        /\ queue = <<>> /\ activeRequests = 0
        /\ questions = <<>> /\ allExtractedQuestions = <<>>

\* rasterization failed and the run stopped in ERROR with nothing enabled
C16_Witness ==
    /\ step = "ERROR"
    /\ message.text = "Could not process PDF."
    /\ questions = <<>>
    /\ ~ENABLED NextRun

-----------------------------------------------------------------------------
(* Claims about the exported service functions, checked under SpecService *)

\* the extraction operations whose last response body was of one of kinds
BodyWas(kinds) ==
    {o \in DOMAIN ops : ops[o].kind = "extract" /\ ops[o].body \in kinds}

\* C17: whenever the response body of an extraction is empty or is not
\* parseable, extractQuestionsFromPage returns the empty sequence: its
\* promise is fulfilled with <<>> and not rejected.
C17_EmptyOrMalformedReturnsEmpty ==
    \A o \in BodyWas({"empty", "malformed"}) :
        /\ ops[o].phase = "returned" /\ ops[o].value = <<>>
        /\ calls[o].st = "resolved" /\ calls[o].value = <<>>

-----------------------------------------------------------------------------
(* Claims about cropDiagram, checked under SpecCrop and SpecCropFair *)

\* cropDiagram was called with an image and an array of four numbers
CropCalled ==
    /\ crop.st # "none"
    /\ crop.base64Image # ""
    /\ crop.bbox.present /\ Len(crop.bbox.v) = 4

Abs(x) == IF x < 0 THEN 0 - x ELSE x

\* the width and height of [ymin, xmin, ymax, xmax] whatever the order of
\* its components
Width(v) == Abs(v[4] - v[2])
Height(v) == Abs(v[3] - v[1])

\* C18: cropDiagram treats a box whose components are out of min/max order
\* as the box with the components swapped: when the width or the height of
\* that box is below 1 the promise is resolved with '' at once, without
\* loading the image, and otherwise the image is loaded and the box used
\* for the crop has ymin <= ymax and xmin <= xmax over the same components.
C18_NormalizedExtent ==
    CropCalled =>
        LET v == crop.bbox.v
            n == normalize(v)
        IN /\ n.ymin <= n.ymax /\ n.xmin <= n.xmax
           /\ {n.ymin, n.ymax} = {v[1], v[3]}
           /\ {n.xmin, n.xmax} = {v[2], v[4]}
           /\ (Width(v) < 1 \/ Height(v) < 1) =>
                 /\ crop.st = "resolved" /\ crop.result = ""
                 /\ crop.img = "none" /\ crop.timer = "none"
           /\ (Width(v) >= 1 /\ Height(v) >= 1) => crop.img # "none"

\* a box of no height with xmin > xmax was resolved with '' at the call
C18_Witness ==
    /\ CropCalled
    /\ crop.bbox.v[2] > crop.bbox.v[4]
    /\ crop.bbox.v[1] = crop.bbox.v[3]
    /\ crop.st = "resolved" /\ crop.result = ""

\* the promise stays resolved with the same result
ResultKept ==
    crop.st = "resolved" =>
        crop'.st = "resolved" /\ crop'.result = crop.result

\* C19: every call of cropDiagram is eventually resolved, with a data URL
\* or with ''; the timer is set to 10000 ms and when it fires with the
\* promise still pending the promise is resolved with ''; once resolved,
\* no later event of the image or the timer changes the result.
C19_CropSettles ==
    /\ (crop.st = "pending") ~> (crop.st = "resolved")
    /\ [](crop.st = "resolved" => crop.result \in {"", DataUrl})
    /\ [](crop.timer # "none" => crop.delay = CROP_TIMEOUT)
    /\ [](crop.timer = "fired" => crop.st = "resolved" /\ crop.result = "")
    /\ [][ResultKept]_vars

\* the timer fired, the promise was resolved with '', and the load event of
\* the image arrived afterwards
C19_Witness ==
    /\ crop.timer = "fired"
    /\ crop.img = "loaded"
    /\ crop.st = "resolved" /\ crop.result = ""

-----------------------------------------------------------------------------
(* Claim about backoff waits and the request queue, checked under SpecBurst *)

\* C20: while an operation waits out a backoff delay, the other operations
\* can make progress without that delay ending: an operation that is
\* running has its call in flight, and when operations are still waiting in
\* the request queue some running operation is not in a backoff wait, so
\* that its completion starts the next queued operation.
C20_BackoffDoesNotBlock ==
    (Waiting(World) # {} /\ queue # <<>>) => InFlight(World) # {}

-----------------------------------------------------------------------------
(* Claim about the queue shared by the exported functions, checked under   *)
(* SpecShared                                                              *)

\* the model calls of kind fn that are in flight
InFlightOf(fn) == {o \in InFlight(World) : ops[o].kind = fn}

\* C21: extraction and caption calls go through the same queue: the number
\* of model calls in flight, extraction and caption calls together, is at
\* most MAX_CONCURRENT_REQUESTS at every instant.
C21_SharedBudget ==
    Cardinality(InFlightOf("extract")) + Cardinality(InFlightOf("ocr"))
        <= MAX_CONCURRENT_REQUESTS

\* the limit is reached with calls of both kinds in flight while a caption
\* call waits in the queue
C21_Witness ==
    /\ Cardinality(InFlight(World)) = MAX_CONCURRENT_REQUESTS
    /\ InFlightOf("extract") # {} /\ InFlightOf("ocr") # {}
    /\ queue # <<>> /\ tasks[Head(queue)].kind = "ocr"

-----------------------------------------------------------------------------
(* Claim about the exports, checked under SpecExport *)

\* the export emitted item kind of slot of question i (with value v)
Emitted(kind, i, slot, v) ==
    \E k \in 1..Len(exported.items) :
        /\ exported.items[k].kind = kind
        /\ exported.items[k].q = i
        /\ exported.items[k].slot = slot
        /\ exported.items[k].v = v

\* C22: an export that ran to its end with rendering and image loading
\* working emits the questions in the order of the list and, for every
\* question, its number, its text, its four options, and every attached
\* diagram image with its non-empty caption, on the question and on the
\* options.
C22_ExportReproduces ==
    (exported.done /\ exported.rendered /\ exported.loads) =>
        /\ \A k, l \in 1..Len(exported.items) :
              k < l => exported.items[k].q <= exported.items[l].q
        /\ \A i \in 1..Len(questions) :
              /\ \E k \in 1..Len(exported.items) :
                    /\ exported.items[k].kind = "number"
                    /\ exported.items[k].q = i
                    /\ exported.items[k].n = questions[i].question_number
              /\ Emitted("text", i, "Q", "")
              /\ \A l \in 1..Len(Labels) : Emitted("option", i, Labels[l], "")
              /\ \A s \in SlotSet :
                    Truthy(questions[i].url[s]) =>
                        /\ Emitted("image", i, s, questions[i].url[s])
                        /\ Truthy(questions[i].alt[s]) =>
                              Emitted("caption", i, s, questions[i].alt[s])

-----------------------------------------------------------------------------
(* Claim about sort, checked under SpecSort *)

\* list is ordered by (page number, question number)
Ordered(list) ==
    \A i, j \in 1..Len(list) :
        i < j =>
            \/ list[i].page_number < list[j].page_number
            \/ /\ list[i].page_number = list[j].page_number
               /\ list[i].question_number <= list[j].question_number

\* sorting an ordered list leaves it as it is
SortStep ==
    Ordered(allExtractedQuestions) =>
        /\ allExtractedQuestions' = allExtractedQuestions
        /\ questions' = allExtractedQuestions

\* C23: sorting a question list that is already ordered by (page number,
\* question number) returns the same list in the same order, questions
\* with equal page and question number included.
C23_SortIdempotent == [][SortStep]_vars

\* sort was applied to a list of two pages that holds two questions with
\* the same page and question number, and left it ordered
C23_Witness ==
    /\ questions = allExtractedQuestions
    /\ Ordered(questions)
    /\ Len(questions) >= 3
    /\ questions[1].page_number # questions[Len(questions)].page_number
    /\ \E i \in 1..(Len(questions) - 1) :
          compare(questions[i], questions[i + 1]) = 0

\* the page and the index in the page's extraction result of the questions
\* of the final list
Origins ==
    {x \in PageIds(World) \X (1..MaxQuestionsPerPage) :
        /\ x[2] <= Len(pages[x[1]].qs)
        /\ Listed(pages[x[1]].qs[x[2]].id)}

\* C24: the questions of the final list that differ in page or in index
\* within the page's extraction result have different ids, whenever the
\* extractions returned and whether or not they were retried.
C24_DistinctIds ==
    /\ \A x, y \in Origins :
          x # y => pages[x[1]].qs[x[2]].id # pages[y[1]].qs[y[2]].id
    /\ \A i, j \in 1..Len(questions) :
          i # j => questions[i].id # questions[j].id

\* a completed run of two pages, both returned in the same millisecond, one
\* after a retry, with two questions from one page
C24_Witness ==
    /\ step = "COMPLETED"
    /\ Len(questions) >= 3
    /\ \E o \in DOMAIN ops : ops[o].attempts = 2 /\ ops[o].phase = "returned"
    /\ \E i, j \in 1..Len(questions) :
          /\ questions[i].page_number # questions[j].page_number
          /\ questions[i].id[Len(questions[i].id)]
                = questions[j].id[Len(questions[j].id)]

-----------------------------------------------------------------------------
(* Further claims about RequestQueue, checked under SpecQueue *)

\* C25: the queue is work-conserving: after every add() and every task
\* completion, a task waits in the pending list only while
\* MAX_CONCURRENT_REQUESTS tasks are executing.
C25_WorkConserving ==
    queue # <<>> => activeRequests = MAX_CONCURRENT_REQUESTS

\* tasks have completed, the queue runs MAX_CONCURRENT_REQUESTS tasks
\* again, and a task submitted by a running task waits
C25_Witness ==
    /\ queue # <<>>
    /\ activeRequests = MAX_CONCURRENT_REQUESTS
    /\ Cardinality({t \in DOMAIN tasks : tasks[t].st = "done"}) >= 1
    /\ Head(queue) \in fromTask
    /\ Cardinality(DOMAIN tasks) = MaxTasks

-----------------------------------------------------------------------------
(* Further claims about handleProcess, checked under SpecRun *)

\* the slots of page p whose crop or caption is still pending
PendingSlots(p) ==
    {x \in (1..Len(pages[p].slots)) \X SlotSet :
        pages[p].slots[x[1]][x[2]] \in {"cropping", "captioning"}}

\* C26: a page callback has finished (its questions pushed, or its error
\* caught) only when every crop and caption launched for its questions has
\* settled, and the run is COMPLETED only when no crop or caption of any
\* page is pending.
C26_SettledBeforeFinished ==
    /\ \A p \in PageIds(World) :
          pages[p].st \in {"pushed", "caught"} => PendingSlots(p) = {}
    /\ step = "COMPLETED" =>
          /\ \A p \in PageIds(World) : PendingSlots(p) = {}
          /\ InFlight(World) = {} /\ Waiting(World) = {} /\ queue = <<>>

\* C27: for every question returned by extraction that carries a
\* question-level bounding box, whatever its has_diagram flag, a crop of
\* the box is attempted; when the crop is not empty the image is attached
\* and a caption is requested, and when the caption returns it is attached.
C27_QuestionBoxCropped ==
    \A p \in PageIds(World) :
        \A i \in 1..Len(pages[p].qs) :
            pages[p].qs[i].bbox["Q"].present =>
                /\ pages[p].slots[i]["Q"] # "none"
                /\ pages[p].slots[i]["Q"] = "done" =>
                      \/ pages[p].qs[i].url["Q"] = Undefined
                      \/ pages[p].qs[i].alt["Q"] # Undefined

\* C28: ERROR is set only by a failed rasterization, before the run enters
\* EXTRACTING_DATA (progress is still 5 and no page exists); once the pages
\* are being processed no failure of an extraction, crop or caption sets
\* ERROR, until every page callback has finished some model call, backoff
\* timer or image load is outstanding, and the run is COMPLETED as soon as
\* they all have finished.
C28_ErrorOnlyFromLoad ==
    /\ step = "ERROR" =>
          /\ pages = <<>> /\ DOMAIN calls = {}
          /\ progress = [num |-> 5, den |-> 1]
    /\ pages # <<>> => step \in {"EXTRACTING_DATA", "COMPLETED"}
    /\ step = "EXTRACTING_DATA" =>
          /\ \E p \in PageIds(World) : pages[p].st \notin {"pushed", "caught"}
          /\ \/ InFlight(World) # {}      \* a model call will return or throw
             \/ Waiting(World) # {}       \* a backoff timer will fire
             \/ Cropping(World) # {}      \* an image will load, fail or time out
    /\ (\A p \in PageIds(World) : pages[p].st \in {"pushed", "caught"}) =>
          step # "EXTRACTING_DATA"

\* a completed run of two pages: the extraction of one page failed and a
\* caption of the other page failed
C28_Witness ==
    /\ step = "COMPLETED"
    /\ Len(pages) = 2
    /\ \A p \in PageIds(World) : pages[p].st = "caught"
    /\ \E p \in PageIds(World) : calls[ExtractionOf(p)].st = "rejected"
    /\ \E p \in PageIds(World) : "failed" \in SlotStates(World, p)

-----------------------------------------------------------------------------
(* Claim about the geometry of cropDiagram, checked under SpecCrop *)

\* the bounds of the normalized box along one axis padded by 2.5% of its
\* extent and clamped to an image of source pixels, in units of 1/40000
\* pixel: where the crop rectangle should begin and end
PaddedFrom(lo, hi, source) == Max(0, lo * source * 40 - (hi - lo) * source)
PaddedTo(lo, hi, source) ==
    Min(source * 40000, hi * source * 40 + (hi - lo) * source)

\* C29: whenever cropDiagram produced a non-empty crop, the rectangle it
\* drew lies inside the image, and on each side it is the normalized box
\* extended by 2.5% of the box's extent, or the image edge where that would
\* leave the image.
C29_PaddedInsideImage ==
    (crop.st = "resolved" /\ crop.result = DataUrl) =>
        LET n == normalize(crop.bbox.v)
            r == crop.rect
            sw == crop.source.w
            sh == crop.source.h
        IN /\ 0 <= r.x /\ 0 <= r.y
           /\ r.x + r.w <= sw * 40000 /\ r.y + r.h <= sh * 40000
           /\ r.x = PaddedFrom(n.xmin, n.xmax, sw)
           /\ r.y = PaddedFrom(n.ymin, n.ymax, sh)
           /\ r.x + r.w = PaddedTo(n.xmin, n.xmax, sw)
           /\ r.y + r.h = PaddedTo(n.ymin, n.ymax, sh)

-----------------------------------------------------------------------------
(* Claim about the life of a task, checked under SpecDrainFair *)

\* the number of places task t has in the pending list
Places(t) == Cardinality({i \in 1..Len(queue) : queue[i] = t})

\* a task that was started is not started again, and a task that has
\* settled stays as it is
TaskStep ==
    \A t \in DOMAIN tasks :
        /\ tasks[t].st = "running" => tasks'[t].st \in {"running", "done"}
        /\ tasks[t].st = "done" => tasks'[t] = tasks[t]
        /\ tasks'[t].st = "done" => tasks[t].st \in {"running", "done"}

\* C30: every task given to add() is in the pending list exactly once
\* until it is started, is started once, is never put back or dropped, and
\* stays settled once it has settled; when running tasks eventually settle,
\* again and again every task submitted so far has been started and has
\* settled, its handle with it.
C30_EveryTaskRunsOnce ==
    /\ [](\A t \in DOMAIN tasks :
             Places(t) = IF tasks[t].st = "queued" THEN 1 ELSE 0)
    /\ [][TaskStep]_vars
    /\ []<>(\A t \in DOMAIN tasks :
               tasks[t].st = "done" /\ tasks[t].handle # "pending")

\* every submitted task has settled, the two that had to wait included,
\* with both outcomes
C30_Witness ==
    /\ Cardinality(DOMAIN tasks) = MaxDrainTasks
    /\ \A t \in DOMAIN tasks : tasks[t].st = "done"
    /\ tasks[MaxDrainTasks].handle = "resolved"
    /\ tasks[MaxDrainTasks - 1].handle = "rejected"

-----------------------------------------------------------------------------
(* Claims about the queue's counter, checked under SpecDrain *)

\* the tasks that are started in the step
StartedInStep ==
    {t \in DOMAIN tasks' :
        /\ tasks'[t].st \in {"running", "done"}
        /\ t \in DOMAIN tasks => tasks[t].st = "queued"}

\* the tasks that settle in the step
SettledInStep ==
    {t \in DOMAIN tasks' :
        /\ tasks'[t].st = "done"
        /\ t \in DOMAIN tasks => tasks[t].st # "done"}

\* every task submitted so far has settled
AllSettled ==
    \A t \in DOMAIN tasks : tasks[t].st = "done" /\ tasks[t].handle # "pending"

\* C31: activeRequests is never negative; every step changes it by the
\* number of tasks started in the step minus the number of tasks that settle
\* in it, resolved or rejected; and when every submitted task has settled it
\* is 0 and the pending list is empty.
C31_ActiveCount ==
    /\ [](activeRequests >= 0)
    /\ [](AllSettled => activeRequests = 0 /\ queue = <<>>)
    /\ [][activeRequests' - activeRequests
             = Cardinality(StartedInStep) - Cardinality(SettledInStep)]_vars

\* more tasks than slots were submitted and all have settled, some of them
\* rejected
C31_Witness ==
    /\ AllSettled
    /\ Cardinality(DOMAIN tasks) > MAX_CONCURRENT_REQUESTS
    /\ \E t \in DOMAIN tasks : tasks[t].handle = "rejected"
    /\ \E t \in DOMAIN tasks : tasks[t].handle = "resolved"
    /\ activeRequests = 0

-----------------------------------------------------------------------------
(* Claim about the slot of a model operation, checked under SpecService *)

\* the calls of the exported functions that were given to the queue
QueuedCalls == {c \in DOMAIN calls : calls[c].task # 0}

\* the task of call c holds a slot from its start to the end of its
\* retryWithBackoff call
SlotOf(c) ==
    LET t == calls[c].task IN
    /\ t \in DOMAIN tasks /\ tasks[t].call = c
    /\ Cardinality({u \in DOMAIN tasks : tasks[u].call = c}) = 1
    /\ Cardinality({o \in DOMAIN ops : ops[o].task = t}) <= 1
    /\ tasks[t].st = "queued" <=> tasks[t].op = 0
    /\ tasks[t].st = "running" =>
          tasks[t].op \in DOMAIN ops /\ ops[tasks[t].op].phase \in {"call", "wait"}
    /\ tasks[t].st = "done" =>
          tasks[t].op \in DOMAIN ops
          /\ ops[tasks[t].op].phase \in {"returned", "thrown"}

\* an operation starts an attempt only from a finished backoff wait, inside
\* its running task, and its task completes only in the step in which its
\* last attempt returns or throws
AttemptStep ==
    /\ \A o \in DOMAIN ops :
          ops'[o].attempts # ops[o].attempts =>
              /\ ops'[o].attempts = ops[o].attempts + 1
              /\ ops[o].phase = "wait" /\ ops'[o].phase = "call"
              /\ tasks[ops[o].task].st = "running"
              /\ tasks'[ops[o].task].st = "running"
    /\ \A t \in DOMAIN tasks :
          (tasks[t].st = "running" /\ tasks'[t].st # "running") =>
              /\ tasks'[t].st = "done"
              /\ ops[tasks[t].op].phase = "call"
              /\ ops'[tasks[t].op].phase \in {"returned", "thrown"}
              /\ ops'[tasks[t].op].attempts = ops[tasks[t].op].attempts

\* C32: a call of extractQuestionsFromPage or performOCR that reaches the
\* queue has one task and one retryWithBackoff call; the task is running,
\* and so counted in activeRequests, while the operation is in an attempt or
\* in a backoff wait; an attempt starts only after the previous one failed
\* and its wait ended; and the task completes only when the last attempt
\* returns or throws.
C32_OneSlotPerOperation ==
    /\ [](\A c \in QueuedCalls : SlotOf(c))
    /\ [](activeRequests = Cardinality(Calling(World)) + Cardinality(Waiting(World)))
    /\ [][AttemptStep]_vars

\* an operation returned at its third attempt and only then gave its slot
\* back, while another operation is in a backoff wait
C32_Witness ==
    /\ \E o \in DOMAIN ops :
          /\ ops[o].phase = "returned" /\ ops[o].attempts = 3
          /\ tasks[ops[o].task].st = "done"
    /\ \E o \in Waiting(World) : tasks[ops[o].task].st = "running"
    /\ activeRequests = 1

-----------------------------------------------------------------------------
(* Claim about the end of a run, checked under SpecFinishFair *)

\* C33: when rasterization settles and every model call, backoff wait and
\* crop settles, a run of handleProcess that has started eventually reaches
\* COMPLETED or ERROR, whatever the pages return and whichever calls fail.
C33_RunTerminates ==
    (step \in {"LOADING_PDF", "EXTRACTING_DATA"}) ~> (step \in Terminal)

\* a run over two pages has ended after a rate-limit failure was retried, a
\* call failed for good and a crop was made
C33_Witness ==
    /\ step \in Terminal
    /\ Len(pages) = 2
    /\ \E o \in DOMAIN ops : ops[o].attempts >= 2
    /\ \E o \in DOMAIN ops : ops[o].phase = "thrown"
    /\ \E p \in PageIds(World) : "done" \in SlotStates(World, p)
    /\ InFlight(World) = {} /\ Waiting(World) = {} /\ Cropping(World) = {}

-----------------------------------------------------------------------------
(* Claim about a run without a credential, checked under SpecRun *)

\* C34: without a credential the request queue is never used, and a run
\* whose rasterization succeeded is COMPLETED with an empty question list:
\* every page callback was caught on the configuration error of its
\* extraction call; the run is in ERROR only when rasterization failed.
C34_NoKeyRunCompletesEmpty ==
    ~apiKey =>
        /\ queue = <<>> /\ activeRequests = 0
        /\ DOMAIN tasks = {} /\ DOMAIN ops = {}
        /\ step \in {"IDLE", "LOADING_PDF", "COMPLETED", "ERROR"}
        /\ step = "ERROR" => pages = <<>> /\ DOMAIN calls = {}
        /\ step = "COMPLETED" =>
              /\ questions = <<>> /\ allExtractedQuestions = <<>>
              /\ message = Note("Extracted questions", 0)
              /\ \A p \in PageIds(World) :
                    /\ pages[p].st = "caught"
                    /\ Settled_As(ExtractionOf(p), "rejected")
                    /\ calls[ExtractionOf(p)].value = ConfigError
              /\ Cardinality(DOMAIN calls) = Len(pages)

\* a run over the largest document has completed without a credential
C34_Witness ==
    /\ ~apiKey
    /\ step = "COMPLETED"
    /\ Len(pages) = MaxPages
    /\ questions = <<>>
    /\ \A p \in PageIds(World) : calls[ExtractionOf(p)].value = ConfigError

-----------------------------------------------------------------------------
(* Claim about the diagram fields of the question list, checked under      *)
(* SpecRun                                                                 *)

\* slot s of question q has its image reference and its caption set
Attached(q, s) == q.url[s] # Undefined /\ q.alt[s] # Undefined

\* C35: for every question of the question list and each of its five
\* slots, the image reference is set exactly when the caption is assigned
\* (the caption may be the empty text); both are set only when the slot has
\* a bounding box, its crop returned a non-empty image and its caption call
\* resolved with the caption stored; and a caption call exists only for a
\* slot whose crop returned a non-empty image.
C35_UrlIffCaption ==
    /\ \A k \in 1..Len(questions), s \in SlotSet :
          LET q == questions[k]
              c == CaptionOf(q.page_number, IndexInPage(q), s) IN
          /\ q.url[s] # Undefined <=> q.alt[s] # Undefined
          /\ Attached(q, s) =>
                /\ q.bbox[s].present /\ LaunchesCrop(q, s)
                /\ q.url[s] = DataUrl
                /\ Settled_As(c, "resolved") /\ calls[c].value = q.alt[s]
          /\ ~Attached(q, s) => c \notin DOMAIN calls
    /\ \A p \in PageIds(World) :
          \A i \in 1..Len(pages[p].qs), s \in SlotSet :
              CaptionOf(p, i, s) \in DOMAIN calls =>
                  /\ pages[p].qs[i].url[s] = DataUrl
                  /\ pages[p].slots[i][s] \in {"captioning", "done", "failed"}

\* the completed list holds a question whose own diagram has an empty
\* caption and whose option A, with a bounding box, got an empty crop
C35_Witness ==
    /\ step = "COMPLETED"
    /\ \E k \in 1..Len(questions) :
          LET q == questions[k] IN
          /\ q.url["Q"] = DataUrl /\ q.alt["Q"] = ""
          /\ q.bbox["A"].present /\ q.url["A"] = Undefined
          /\ pages[q.page_number].slots[IndexInPage(q)]["A"] = "done"
    /\ \E k \in 1..Len(questions) : questions[k].alt["A"] = "caption"

-----------------------------------------------------------------------------
(* Claim about reset and resubmission, checked under SpecSession *)

\* a run that ended in ERROR, or in COMPLETED with no question
DeadEnd == step = "ERROR" \/ (step = "COMPLETED" /\ questions = <<>>)

\* what a step may do to the step of the run
SessionStep ==
    /\ (step # "IDLE" /\ step' = "IDLE") =>
          /\ questions # <<>>
          /\ questions' = <<>>
          /\ progress' = [num |-> 0, den |-> 1]
          /\ message' = Note("", 0)
    /\ (step # "LOADING_PDF" /\ step' = "LOADING_PDF") => step = "IDLE"
    /\ DeadEnd => step' = step /\ questions' = questions

\* C36: the step becomes IDLE only by a reset, which happens only with a
\* non-empty question list and leaves the list empty, progress 0 and the
\* message empty; a run starts only in IDLE; and in a run that ended in
\* ERROR, or in COMPLETED with no question, neither reset nor the upload is
\* offered, so the step and the list never change again.
C36_ResetOnlyWithQuestions ==
    /\ [][SessionStep]_vars
    /\ [](DeadEnd => ~resetOffered(World) /\ ~uploadOffered(World))

\* the user has reset a completed run that had questions: the page shows
\* the upload again, with the calls of the run settled
C36_Witness ==
    /\ step = "IDLE"
    /\ \E p \in PageIds(World) : pages[p].st = "pushed"
    /\ questions = <<>> /\ allExtractedQuestions # <<>>
    /\ progress.num = 0 /\ message = Note("", 0)
    /\ Quiescent(World)

=============================================================================
